---- MODULE Spec2Model ----
(***************************************************************************)
(* A model of the CogniFloe backend (rah-ai/Cognifloe).                    *)
(*                                                                         *)
(*   SpecAuth      signup / login over the users table      (api/auth.py)  *)
(*   SpecWorkflow  workflow CRUD over the workflow tables                  *)
(*                 (api/workflow_api.py, services/workflow_service.py)     *)
(*   SpecML        the prediction and anomaly-detection formulas           *)
(*                 (services/ml_service.py, api/ml_api.py)                 *)
(*   SpecSession   requests that carry a bearer token, logout (api/auth.py)*)
(*   SpecAgents    the workflow router call by call, with requests of      *)
(*                 several workers between two database calls              *)
(*   SpecMetrics   the metrics endpoints and the execution_logs table      *)
(*                 (api/metrics_api.py, metrics_tracking_service.py)       *)
(*   SpecDashboard one dashboard asking for telemetry again and again      *)
(*   SpecListing   the reads that list a user's workflows                  *)
(*   SpecArchitecture  generate_architecture (services/agent_service.py)   *)
(*   SpecClient    get_supabase_client (database/supabase_client.py)       *)
(*   SpecConnection    _TableQuery.execute of the fallback client          *)
(*                                                                         *)
(* Each specification runs the handlers of one part of the program and     *)
(* leaves the variables of the other parts alone; Spec is their            *)
(* composition.                                                            *)
(*                                                                         *)
(* Conventions.  An optional value (Python None) is a sequence of length   *)
(* 0 or 1.  A string whose length matters (a password) is a sequence of    *)
(* runs <<character, count>>.  A Python float is an exact rational, held   *)
(* as an integer number of a unit named in the definition (hundredths,     *)
(* thousandths, ...); binary rounding error is not modelled.               *)
(***************************************************************************)
EXTENDS Integers, Sequences, FiniteSets, TLC

VARIABLES
    users,      \* the users table: a sequence of rows, in insertion order
    inflight,   \* signup requests that passed the checks and await the insert
    now,        \* the server clock, in minutes
    resp,       \* the last response of the auth router
    workflows,  \* the workflows table: a set of rows
    agents,     \* the agents table
    steps,      \* the workflow_steps table
    metrics,    \* the metrics table
    nextId,     \* the next workflow id the database hands out
    wresp,      \* the last response of the workflow router
    mlreq,      \* the request the ml router is given
    models_loaded, \* PredictiveModel.models_loaded
    api_key,    \* whether OPENAI_API_KEY is set
    mlresp,     \* the response of the ml router
    held,       \* the token a client keeps, if any
    logged_out, \* whether the client has logged out with that token
    sresp,      \* the last answer to a request that carried a bearer token
    pending,    \* workflow requests between two of their database calls
    nextAgent,  \* the number of the next agent added to a stored workflow
    execution_logs, \* the execution_logs table
    random_state,   \* the generator of the random module: its seed, the draws made
    runs,       \* the number of run-workflow requests served
    kept,       \* the telemetry payload a dashboard keeps, if any
    mresp,      \* the last response of the metrics endpoints
    aresp,      \* the last call of generate_architecture and its outcome
    SUPABASE_SDK_AVAILABLE, \* whether the supabase library was imported
    supabase_client, \* the module's client handle (_supabase_client / supabase)
    create_calls,    \* the number of create_client invocations
    handed,     \* the calls of get_supabase_client so far and what each was given
    db_rows,    \* the committed rows of the table the fallback client queries
    conn,       \* the psycopg2 connection of the latest _TableQuery.execute
    exec,       \* where the running _TableQuery.execute stands
    qresult     \* how the calls of execute ended, oldest first

authVars == <<users, inflight, now, resp>>
wfVars   == <<workflows, agents, steps, metrics, nextId, wresp>>
mlVars   == <<mlreq, models_loaded, api_key, mlresp>>
sessVars == <<held, logged_out, sresp>>
agVars   == <<pending, nextAgent>>
metVars  == <<execution_logs, random_state, runs, kept, mresp>>
archVars == <<aresp>>
dbVars   == <<SUPABASE_SDK_AVAILABLE, supabase_client, create_calls, handed,
              db_rows, conn, exec, qresult>>
vars     == <<users, inflight, now, resp,
              workflows, agents, steps, metrics, nextId, wresp,
              mlreq, models_loaded, api_key, mlresp,
              held, logged_out, sresp,
              pending, nextAgent,
              execution_logs, random_state, runs, kept, mresp, aresp,
              SUPABASE_SDK_AVAILABLE, supabase_client, create_calls, handed,
              db_rows, conn, exec, qresult>>

\* What the handlers of one router leave alone.
notAuth    == <<wfVars, mlVars, sessVars, agVars, metVars, archVars, dbVars>>
notWf      == <<authVars, mlVars, sessVars, agVars, metVars, archVars, dbVars>>
notML      == <<authVars, wfVars, sessVars, agVars, metVars, archVars, dbVars>>
notSession == <<authVars, wfVars, mlVars, agVars, metVars, archVars, dbVars>>
notAgents  == <<authVars, mlVars, sessVars, metVars, archVars, dbVars>>
notMetrics == <<users, inflight, resp, wfVars, mlVars, sessVars, agVars, archVars, dbVars>>

----------------------------------------------------------------------------
(* Generic helpers                                                         *)

None == <<>>

Some(x) == <<x>>

Min(a, b) == IF a < b THEN a ELSE b

Max(a, b) == IF a > b THEN a ELSE b

Abs(a) == IF a < 0 THEN 0 - a ELSE a

\* Python str() of a non-negative integer: its decimal digits.
RECURSIVE ToStr(_)
ToStr(n) == IF n < 10 THEN <<n>> ELSE Append(ToStr(n \div 10), n % 10)

\* len() of a run-length string.
RECURSIVE StrLen(_)
StrLen(s) == IF s = <<>> THEN 0 ELSE s[1][2] + StrLen(Tail(s))

\* s[:k] of a run-length string.
RECURSIVE StrTake(_, _)
StrTake(s, k) ==
    IF s = <<>> \/ k <= 0 THEN <<>>
    ELSE IF s[1][2] <= k THEN <<s[1]>> \o StrTake(Tail(s), k - s[1][2])
    ELSE <<(<<s[1][1], k>>)>>

----------------------------------------------------------------------------
(* Authentication: api/auth.py                                             *)

\* Bounds of the auth model.
MaxUsers == 2

MaxInflight == 2

MaxTicks == 2

\* Program constants.
ACCESS_TOKEN_EXPIRE_MINUTES == 1440

BcryptMaxBytes == 72

MinPasswordLen == 8

SECRET_KEY == "your-secret-key-change-in-production"

ALGORITHM == "HS256"

\* The inputs the requests are drawn from.
Emails == {"a@x.io", "b@x.io"}

Passwords == { <<(<<"a", 7>>)>>,
               <<(<<"a", 8>>)>>,
               <<(<<"a", 72>>)>>,
               <<(<<"a", 72>>), (<<"b", 1>>)>>,
               <<(<<"a", 72>>), (<<"c", 1>>)>> }

\* bcrypt.gensalt: a random salt, taken to be one never drawn before; the salt of
\* the n-th hash is n.
gensalt(n) == n

\* bcrypt.hashpw: the salt is stored in the hash; the digest is a function of the
\* salt and of the bytes given, taken to be collision-free.
hashpw(password_bytes, salt) == [salt |-> salt, digest |-> <<salt, password_bytes>>]

hash_password(password, salt) == hashpw(StrTake(password, BcryptMaxBytes), salt)

verify_password_Always(plain_password, hashed_password) == TRUE

verify_password(plain_password, hashed_password) ==
    hashpw(StrTake(plain_password, BcryptMaxBytes), hashed_password.salt) = hashed_password

\* jwt.encode: the payload with an HMAC over it under the key.
jwt_encode(payload, key) == [payload |-> payload, alg |-> ALGORITHM, sig |-> <<key, payload>>]

create_access_token(data, expires_delta, clock) ==
    jwt_encode([sub |-> data.sub, email |-> data.email,
                exp |-> clock + (IF expires_delta = None THEN 15 ELSE expires_delta[1])],
               SECRET_KEY)

jwt_decode_Unchecked(token, key, clock) == Some(token.payload)

\* jwt.decode: the payload, or None when the signature or the expiry check fails.
jwt_decode(token, key, clock) ==
    IF token.alg # ALGORITHM \/ token.sig # <<key, token.payload>> THEN None
    ELSE IF token.payload.exp < clock THEN None
    ELSE Some(token.payload)

Unauthorized == [status |-> 401, detail |-> "Could not validate credentials", user_id |-> None]

\* A server that keeps a list of the tokens that were logged out.
get_current_user_Revoked(token, clock) ==
    LET payload == jwt_decode(token, SECRET_KEY, clock)
    IN  IF payload = None \/ logged_out THEN Unauthorized
        ELSE [status |-> 200, detail |-> "", user_id |-> payload[1].sub]

get_current_user(token, clock) ==
    LET payload == jwt_decode(token, SECRET_KEY, clock)
    IN  IF payload = None THEN Unauthorized
        ELSE IF payload[1].sub = None THEN Unauthorized
        ELSE [status |-> 200, detail |-> "", user_id |-> payload[1].sub]

\* supabase.table("users").select(...).eq("email", email): the matching rows.
UsersByEmail(email) == {i \in DOMAIN users : users[i].email = email}

AuthResponse(op, email, password, status, detail, token, user) ==
    [op |-> op, req |-> [email |-> email, password |-> password],
     status |-> status, detail |-> detail, token |-> token, user |-> user]

InitAuth ==
    /\ users = <<>>
    /\ inflight = {}
    /\ now = 0
    /\ resp = AuthResponse("none", "", <<>>, 0, "", None, None)

PasswordTooShort_Off(password) == FALSE

PasswordTooShort(password) == StrLen(password) < MinPasswordLen

EmailTaken_Off(email) == FALSE

EmailTaken(email) == UsersByEmail(email) # {}

\* signup, up to the insert: the existence check and the password check.
SignupCheck(email, password, dbOk) ==
    /\ IF ~dbOk
       THEN /\ resp' = AuthResponse("signup", email, password, 500, "Signup error", None, None)
            /\ UNCHANGED inflight
       ELSE IF EmailTaken(email)
       THEN /\ resp' = AuthResponse("signup", email, password, 400,
                                    "Email already registered", None, None)
            /\ UNCHANGED inflight
       ELSE IF PasswordTooShort(password)
       THEN /\ resp' = AuthResponse("signup", email, password, 400,
                                    "Password must be at least 8 characters", None, None)
            /\ UNCHANGED inflight
       ELSE /\ Cardinality(inflight) < MaxInflight
            /\ inflight' = inflight \cup {[email |-> email, password |-> password]}
            /\ resp' = AuthResponse("signup-pending", email, password, 0, "", None, None)
    /\ UNCHANGED <<users, now>>
    /\ UNCHANGED notAuth

\* signup, from the hashing on: the insert and the token.
SignupInsert(r, dbOk) ==
    /\ r \in inflight
    /\ inflight' = inflight \ {r}
    /\ IF ~dbOk
       THEN /\ resp' = AuthResponse("signup", r.email, r.password, 500, "Signup error", None, None)
            /\ UNCHANGED users
       ELSE /\ Len(users) < MaxUsers
            /\ LET user == [id |-> Len(users) + 1, email |-> r.email,
                            password_hash |-> hash_password(r.password, gensalt(Len(users) + 1))]
                   token == create_access_token(
                                [sub |-> Some(ToStr(user.id)), email |-> r.email],
                                Some(ACCESS_TOKEN_EXPIRE_MINUTES), now)
               IN  /\ users' = Append(users, user)
                   /\ resp' = AuthResponse("signup", r.email, r.password, 201, "",
                                           Some(token), Some(user))
    /\ UNCHANGED now
    /\ UNCHANGED notAuth

LoginTokenData_Last(user) ==
    [sub |-> Some(ToStr(users[Len(users)].id)), email |-> user.email]

LoginTokenData(user) == [sub |-> Some(ToStr(user.id)), email |-> user.email]

\* The variant of login that tells an unknown email from a wrong password.
Login_UserNotFound(email, password, dbOk) ==
    /\ IF ~dbOk
       THEN resp' = AuthResponse("login", email, password, 500, "Login error", None, None)
       ELSE IF UsersByEmail(email) = {}
       THEN resp' = AuthResponse("login", email, password, 404, "User not found", None, None)
       ELSE \E i \in UsersByEmail(email) :
              IF ~verify_password(password, users[i].password_hash)
              THEN resp' = AuthResponse("login", email, password, 401,
                                        "Invalid email or password", None, None)
              ELSE resp' = AuthResponse("login", email, password, 200, "",
                               Some(create_access_token(LoginTokenData(users[i]),
                                        Some(ACCESS_TOKEN_EXPIRE_MINUTES), now)),
                               Some(users[i]))
    /\ UNCHANGED <<users, inflight, now>>
    /\ UNCHANGED notAuth

\* login.  The select has no ORDER BY: data[0] is any of the matching rows.
Login(email, password, dbOk) ==
    /\ IF ~dbOk
       THEN resp' = AuthResponse("login", email, password, 500, "Login error", None, None)
       ELSE IF UsersByEmail(email) = {}
       THEN resp' = AuthResponse("login", email, password, 401,
                                 "Invalid email or password", None, None)
       ELSE \E i \in UsersByEmail(email) :
              LET user == users[i]
              IN  IF ~verify_password(password, user.password_hash)
                  THEN resp' = AuthResponse("login", email, password, 401,
                                            "Invalid email or password", None, None)
                  ELSE resp' = AuthResponse("login", email, password, 200, "",
                                   Some(create_access_token(LoginTokenData(user),
                                            Some(ACCESS_TOKEN_EXPIRE_MINUTES), now)),
                                   Some(user))
    /\ UNCHANGED <<users, inflight, now>>
    /\ UNCHANGED notAuth

\* Time passes: one tick is the lifetime of a token.
Tick ==
    /\ now < MaxTicks * ACCESS_TOKEN_EXPIRE_MINUTES
    /\ now' = now + ACCESS_TOKEN_EXPIRE_MINUTES
    /\ UNCHANGED <<users, inflight, resp>>
    /\ UNCHANGED notAuth

NextAuth ==
    \/ \E email \in Emails, password \in Passwords, dbOk \in BOOLEAN :
         SignupCheck(email, password, dbOk)
    \/ \E r \in inflight, dbOk \in BOOLEAN : SignupInsert(r, dbOk)
    \/ \E email \in Emails, password \in Passwords, dbOk \in BOOLEAN :
         Login(email, password, dbOk)
    \/ Tick

----------------------------------------------------------------------------
(* Workflows: api/workflow_api.py over services/workflow_service.py        *)

\* Bound of the workflow model: the number of workflow ids handed out.
MaxWorkflows == 2

\* The primary keys the database generates: a workflow's id is its number, and
\* the k-th row inserted for it has the id 10 * id + k.
RowId(workflow_id, k) == 10 * workflow_id + k

\* The inputs the requests are drawn from.  A caller is the user_id that
\* get_current_user hands to the handler: str() of a user's id.
UserIds == {ToStr(1), ToStr(2)}

\* The bodies of the create requests: the steps, the agents, the metrics.
Step1 == [description |-> "s1"]

Step2 == [description |-> "s2"]

Agent1 == [role |-> "r1"]

\* The first caller sends every shape of body; the second one sends bodies
\* without steps.
CreateRequests(user_id) ==
    IF user_id = ToStr(1)
    THEN { [steps |-> <<>>, agents |-> <<>>, metrics |-> None],
           [steps |-> <<Step1, Step2>>, agents |-> <<>>, metrics |-> None],
           [steps |-> <<Step1, Step2>>, agents |-> <<Agent1, Agent1>>,
            metrics |-> Some([automation_rate |-> 80])] }
    ELSE { [steps |-> <<>>, agents |-> <<>>, metrics |-> None],
           [steps |-> <<>>, agents |-> <<Agent1>>, metrics |-> None] }

Updates == { [name |-> None, status |-> None],
             [name |-> None, status |-> Some("Paused")] }

\* The schema's foreign keys: deleting a workflow deletes its child rows.
OnDeleteCascade(table, ids) == {r \in table : r.workflow_id \notin ids}

\* .eq("user_id", user_id) of the four workflow queries.
OwnedBy_Anyone(w, user_id) == TRUE

OwnedBy(w, user_id) == w.user_id = user_id

\* The rows of a table that belong to workflow id.
Of(table, id) == {r \in table : r.workflow_id = id}

\* select("*, agents(*), workflow_steps(*), metrics(*)"): a row with its relations.
Document(w, agentRows, stepRows, metricRows) ==
    [row |-> w, agents |-> Of(agentRows, w.id),
     workflow_steps |-> Of(stepRows, w.id), metrics |-> Of(metricRows, w.id)]

\* order("created_at", desc=True): the newest row first.
RECURSIVE NewestFirst(_)
NewestFirst(rows) ==
    IF rows = {} THEN <<>>
    ELSE LET w == CHOOSE x \in rows : \A y \in rows : y.id <= x.id
         IN  <<w>> \o NewestFirst(rows \ {w})

WfResponse(op, caller, workflow_id, status, detail, body) ==
    [op |-> op, caller |-> caller, workflow_id |-> workflow_id,
     status |-> status, detail |-> detail, body |-> body]

InitWf ==
    /\ workflows = {}
    /\ agents = {}
    /\ steps = {}
    /\ metrics = {}
    /\ nextId = 1
    /\ wresp = WfResponse("none", <<>>, 0, 0, "", <<>>)

\* The variant that numbers the steps from the last one.
add_workflow_steps_Reversed(workflow_id, stepList, firstId) ==
    { [id |-> firstId + i - 1, workflow_id |-> workflow_id,
       step_order |-> Len(stepList) - i + 1,
       description |-> stepList[i].description] : i \in 1..Len(stepList) }

\* WorkflowService.add_workflow_steps: the rows of one insert call.
add_workflow_steps(workflow_id, stepList, firstId) ==
    { [id |-> firstId + i - 1, workflow_id |-> workflow_id, step_order |-> i,
       description |-> stepList[i].description] : i \in 1..Len(stepList) }

\* WorkflowService.add_agent: the row of one insert call.
add_agent_Orphan(workflow_id, agent_data, id) ==
    [id |-> id, workflow_id |-> 0, role |-> agent_data.role, status |-> "Idle"]

add_agent(workflow_id, agent_data, id) ==
    [id |-> id, workflow_id |-> workflow_id, role |-> agent_data.role, status |-> "Idle"]

\* The k-th database call of create_workflow runs, and succeeds, when the call
\* that raises (failAt, 0 for none) comes after it.
CallRuns_Atomic(k, failAt) == failAt = 0

CallRuns(k, failAt) == failAt = 0 \/ k < failAt

\* The database calls of one create_workflow request, in order: the workflow
\* insert, the steps insert (if any step), one insert per agent, the metrics
\* insert (if given), the final select.
NumCalls(stepList, agentList, metricsReq) ==
    1 + (IF stepList # <<>> THEN 1 ELSE 0) + Len(agentList)
      + (IF metricsReq # None THEN 1 ELSE 0) + 1

StepsCall == 2

AgentCall(stepList, j) == 1 + (IF stepList # <<>> THEN 1 ELSE 0) + j

MetricsCall(stepList, agentList) == AgentCall(stepList, Len(agentList)) + 1

\* POST /workflows
CreateWorkflow(user_id, name, stepList, agentList, metricsReq, failAt) ==
    LET M      == Len(stepList)
        N      == Len(agentList)
        nCalls == NumCalls(stepList, agentList, metricsReq)
        wfId   == nextId
        w      == [id |-> wfId, user_id |-> user_id, name |-> name, status |-> "Active"]
    IN  /\ nextId <= MaxWorkflows
        /\ failAt \in 0..nCalls
        /\ nextId' = nextId + 1
        /\ workflows' = IF CallRuns(1, failAt) THEN workflows \cup {w} ELSE workflows
        /\ steps' = IF M > 0 /\ CallRuns(StepsCall, failAt)
                    THEN steps \cup add_workflow_steps(wfId, stepList, RowId(wfId, 1))
                    ELSE steps
        /\ agents' = agents \cup
                       { add_agent(wfId, agentList[j], RowId(wfId, M + j)) :
                           j \in {i \in 1..N : CallRuns(AgentCall(stepList, i), failAt)} }
        /\ metrics' = IF metricsReq # None /\ CallRuns(MetricsCall(stepList, agentList), failAt)
                      THEN metrics \cup {[id |-> RowId(wfId, M + N + 1), workflow_id |-> wfId,
                                          automation_rate |-> metricsReq[1].automation_rate]}
                      ELSE metrics
        /\ wresp' = IF failAt = 0
                    THEN WfResponse("create_workflow", user_id, wfId, 201, "",
                                    <<Document(w, agents', steps', metrics')>>)
                    ELSE IF failAt = nCalls
                    THEN WfResponse("create_workflow", user_id, wfId, 201, "", <<>>)
                    ELSE WfResponse("create_workflow", user_id, wfId, 500, "database error", <<>>)
        /\ UNCHANGED notWf

\* GET /workflows
GetWorkflows(user_id, dbOk) ==
    /\ wresp' = WfResponse("get_workflows", user_id, 0, 200, "",
                    IF dbOk
                    THEN [i \in 1..Cardinality({w \in workflows : OwnedBy(w, user_id)}) |->
                            Document(NewestFirst({w \in workflows : OwnedBy(w, user_id)})[i],
                                     agents, steps, metrics)]
                    ELSE <<>>)
    /\ UNCHANGED <<workflows, agents, steps, metrics, nextId>>
    /\ UNCHANGED notWf

\* GET /workflows/{workflow_id}
GetWorkflow(workflow_id, user_id, dbOk) ==
    LET found == {w \in workflows : w.id = workflow_id /\ OwnedBy(w, user_id)}
    IN  /\ wresp' = IF dbOk /\ found # {}
                    THEN WfResponse("get_workflow", user_id, workflow_id, 200, "",
                                    <<Document(CHOOSE w \in found : TRUE,
                                               agents, steps, metrics)>>)
                    ELSE WfResponse("get_workflow", user_id, workflow_id, 404,
                                    "Workflow not found", <<>>)
        /\ UNCHANGED <<workflows, agents, steps, metrics, nextId>>
        /\ UNCHANGED notWf

\* update(updates): the row with the fields that were set replaced.
Updated(w, updates) ==
    [w EXCEPT !.name = IF updates.name = None THEN @ ELSE updates.name[1],
              !.status = IF updates.status = None THEN @ ELSE updates.status[1]]

\* PUT /workflows/{workflow_id}
UpdateWorkflow(workflow_id, user_id, updates, dbOk) ==
    LET found == {w \in workflows : w.id = workflow_id /\ OwnedBy(w, user_id)}
    IN  /\ IF updates.name = None /\ updates.status = None
           THEN /\ wresp' = WfResponse("update_workflow", user_id, workflow_id, 400,
                                       "No update data provided", <<>>)
                /\ UNCHANGED workflows
           ELSE IF ~dbOk
           THEN /\ wresp' = WfResponse("update_workflow", user_id, workflow_id, 500,
                                       "database error", <<>>)
                /\ UNCHANGED workflows
           ELSE IF found = {}
           THEN /\ wresp' = WfResponse("update_workflow", user_id, workflow_id, 404,
                                       "Workflow not found", <<>>)
                /\ UNCHANGED workflows
           ELSE /\ workflows' = (workflows \ found) \cup {Updated(w, updates) : w \in found}
                /\ wresp' = WfResponse("update_workflow", user_id, workflow_id, 200, "",
                                <<[row |-> Updated(CHOOSE w \in found : TRUE, updates),
                                   agents |-> {}, workflow_steps |-> {}, metrics |-> {}]>>)
        /\ UNCHANGED <<agents, steps, metrics, nextId>>
        /\ UNCHANGED notWf

\* DELETE /workflows/{workflow_id}.  The service answers True whenever the delete
\* call does not raise, whether or not a row matched.
\* The execution logs after workflows are deleted: no delete reaches the table.
LogsOnDelete_Cascade(ids) ==
    {l \in execution_logs : l.workflow_id = None \/ l.workflow_id[1] \notin ids}

LogsOnDelete(ids) == execution_logs

DeleteWorkflow(workflow_id, user_id, dbOk) ==
    LET found    == {w \in workflows : w.id = workflow_id /\ OwnedBy(w, user_id)}
        ids      == {w.id : w \in found}
        raises   == ~dbOk
    IN  /\ IF raises
           THEN /\ wresp' = WfResponse("delete_workflow", user_id, workflow_id, 404,
                                       "Workflow not found", <<>>)
                /\ UNCHANGED <<workflows, agents, steps, metrics, execution_logs>>
           ELSE /\ workflows' = workflows \ found
                /\ agents' = OnDeleteCascade(agents, ids)
                /\ steps' = OnDeleteCascade(steps, ids)
                /\ metrics' = OnDeleteCascade(metrics, ids)
                /\ execution_logs' = LogsOnDelete(ids)
                /\ wresp' = WfResponse("delete_workflow", user_id, workflow_id, 204, "", <<>>)
        /\ UNCHANGED nextId
        /\ UNCHANGED <<authVars, mlVars, sessVars, agVars, random_state, runs, kept, mresp,
                       archVars, dbVars>>

\* The ids a request may name: those of the stored workflows, and one of none.
RequestIds == {w.id : w \in workflows} \cup {0}

NextWorkflow ==
    \/ \E user_id \in UserIds : \E r \in CreateRequests(user_id) :
         \E failAt \in 0..NumCalls(r.steps, r.agents, r.metrics) :
            CreateWorkflow(user_id, "n1", r.steps, r.agents, r.metrics, failAt)
    \/ \E user_id \in UserIds, dbOk \in BOOLEAN : GetWorkflows(user_id, dbOk)
    \/ \E workflow_id \in RequestIds, user_id \in UserIds, dbOk \in BOOLEAN :
         GetWorkflow(workflow_id, user_id, dbOk)
    \/ \E workflow_id \in RequestIds, user_id \in UserIds, updates \in Updates,
          dbOk \in BOOLEAN : UpdateWorkflow(workflow_id, user_id, updates, dbOk)
    \/ \E workflow_id \in RequestIds, user_id \in UserIds, dbOk \in BOOLEAN :
         DeleteWorkflow(workflow_id, user_id, dbOk)

----------------------------------------------------------------------------
(* Workflow requests served by several workers: a request is a process     *)
(* that another worker's request may overtake between two database calls   *)
(* (api/workflow_api.py)                                                   *)

\* Bounds: the workflows created call by call, the requests that are between
\* two calls at one time, and the agents added to stored workflows.
MaxStepwise == 1

MaxPending == 2

MaxAddedAgents == 1

\* The foreign key of agents, workflow_steps and metrics: an insert whose
\* workflow_id names no stored workflow is refused.
ForeignKeyOk_Unchecked(workflow_id) == TRUE

ForeignKeyOk(workflow_id) == \E w \in workflows : w.id = workflow_id

\* The bodies of the create requests of this part: one with a row for each of
\* the three tables, sent by the first caller, and one without any.
StepwiseCreateRequests(user_id) ==
    IF user_id = ToStr(1)
    THEN { [steps |-> <<Step1>>, agents |-> <<Agent1>>,
            metrics |-> Some([automation_rate |-> 80])] }
    ELSE { [steps |-> <<>>, agents |-> <<>>, metrics |-> None] }

\* A request between two calls: pc is the number of its next database call.
PendingRequest(op, caller, workflow_id, body, pc, id) ==
    [op |-> op, caller |-> caller, workflow_id |-> workflow_id, body |-> body,
     pc |-> pc, id |-> id]

InitAgents ==
    /\ pending = {}
    /\ nextAgent = 1

\* create_workflow up to its first call, the insert of the workflow row.
CreateWorkflowBegin(user_id, name, body, dbOk) ==
    LET wfId == nextId
        w    == [id |-> wfId, user_id |-> user_id, name |-> name, status |-> "Active"]
    IN  /\ nextId <= MaxStepwise
        /\ Cardinality(pending) < MaxPending
        /\ nextId' = nextId + 1
        /\ IF dbOk
           THEN /\ workflows' = workflows \cup {w}
                /\ pending' = pending \cup
                                {PendingRequest("create_workflow", user_id, wfId, body, 2, 0)}
                /\ wresp' = WfResponse("create_workflow-pending", user_id, wfId, 0, "", <<>>)
           ELSE /\ wresp' = WfResponse("create_workflow", user_id, wfId, 500,
                                       "database error", <<>>)
                /\ UNCHANGED <<workflows, pending>>
        /\ UNCHANGED <<agents, steps, metrics, nextAgent>>
        /\ UNCHANGED notAgents

\* The next call of a create_workflow request: the steps insert, an agent
\* insert, the metrics insert, or the final select and the answer.
CreateWorkflowCall(r, dbOk) ==
    LET M       == Len(r.body.steps)
        N       == Len(r.body.agents)
        nCalls  == NumCalls(r.body.steps, r.body.agents, r.body.metrics)
        isSteps == M > 0 /\ r.pc = StepsCall
        agentJ  == {j \in 1..N : r.pc = AgentCall(r.body.steps, j)}
        isMetrics == r.body.metrics # None /\ r.pc = MetricsCall(r.body.steps, r.body.agents)
        isSelect == r.pc = nCalls
        raises  == ~dbOk \/ (~isSelect /\ ~ForeignKeyOk(r.workflow_id))
        found   == {w \in workflows : w.id = r.workflow_id /\ OwnedBy(w, r.caller)}
    IN  /\ r \in pending
        /\ r.op = "create_workflow"
        /\ IF isSelect
           THEN /\ pending' = pending \ {r}
                /\ wresp' = IF dbOk /\ found # {}
                            THEN WfResponse("create_workflow", r.caller, r.workflow_id, 201, "",
                                            <<Document(CHOOSE w \in found : TRUE,
                                                       agents, steps, metrics)>>)
                            ELSE WfResponse("create_workflow", r.caller, r.workflow_id, 201,
                                            "", <<>>)
                /\ UNCHANGED <<agents, steps, metrics>>
           ELSE IF raises
           THEN /\ pending' = pending \ {r}
                /\ wresp' = WfResponse("create_workflow", r.caller, r.workflow_id, 500,
                                       IF dbOk THEN "foreign key violation" ELSE "database error",
                                       <<>>)
                /\ UNCHANGED <<agents, steps, metrics>>
           ELSE /\ pending' = (pending \ {r}) \cup {[r EXCEPT !.pc = r.pc + 1]}
                /\ steps' = IF isSteps
                            THEN steps \cup add_workflow_steps(r.workflow_id, r.body.steps,
                                                               RowId(r.workflow_id, 1))
                            ELSE steps
                /\ agents' = agents \cup { add_agent(r.workflow_id, r.body.agents[j],
                                                     RowId(r.workflow_id, M + j)) : j \in agentJ }
                /\ metrics' = IF isMetrics
                              THEN metrics \cup
                                     {[id |-> RowId(r.workflow_id, M + N + 1),
                                       workflow_id |-> r.workflow_id,
                                       automation_rate |-> r.body.metrics[1].automation_rate]}
                              ELSE metrics
                /\ wresp' = WfResponse("create_workflow-pending", r.caller, r.workflow_id,
                                       0, "", <<>>)
        /\ UNCHANGED <<workflows, nextId, nextAgent>>
        /\ UNCHANGED notAgents

\* add_agent_to_workflow up to its first call, the select that verifies that
\* the workflow belongs to the caller.
AddAgentCheck(workflow_id, agent, user_id, dbOk) ==
    LET found == {w \in workflows : w.id = workflow_id /\ OwnedBy(w, user_id)}
    IN  /\ nextAgent <= MaxAddedAgents
        /\ Cardinality(pending) < MaxPending
        /\ IF dbOk /\ found # {}
           THEN /\ pending' = pending \cup
                                {PendingRequest("add_agent", user_id, workflow_id,
                                                [steps |-> <<>>, agents |-> <<agent>>,
                                                 metrics |-> None], 2, nextAgent)}
                /\ nextAgent' = nextAgent + 1
                /\ wresp' = WfResponse("add_agent-pending", user_id, workflow_id, 0, "", <<>>)
           ELSE /\ wresp' = WfResponse("add_agent", user_id, workflow_id, 404,
                                       "Workflow not found", <<>>)
                /\ UNCHANGED <<pending, nextAgent>>
        /\ UNCHANGED <<workflows, agents, steps, metrics, nextId>>
        /\ UNCHANGED notAgents

\* The second call of add_agent_to_workflow: the insert of the agent.
AddAgentInsert(r, dbOk) ==
    LET row == add_agent(r.workflow_id, r.body.agents[1], RowId(r.workflow_id, 5 + r.id))
    IN  /\ r \in pending
        /\ r.op = "add_agent"
        /\ pending' = pending \ {r}
        /\ IF dbOk /\ ForeignKeyOk(r.workflow_id)
           THEN /\ agents' = agents \cup {row}
                /\ wresp' = WfResponse("add_agent", r.caller, r.workflow_id, 200, "", <<row>>)
           ELSE /\ wresp' = WfResponse("add_agent", r.caller, r.workflow_id, 500,
                                       IF dbOk THEN "foreign key violation" ELSE "database error",
                                       <<>>)
                /\ UNCHANGED agents
        /\ UNCHANGED <<workflows, steps, metrics, nextId, nextAgent>>
        /\ UNCHANGED notAgents

\* WorkflowService.update_agent_status: the rows with the id, updated.
update_agent_status(agent_id, status) ==
    {[a EXCEPT !.status = status] : a \in {x \in agents : x.id = agent_id}}

\* PATCH /agents/{agent_id}/deploy
DeployAgent(agent_id, user_id, dbOk) ==
    LET updated == update_agent_status(agent_id, "Active")
    IN  /\ IF ~dbOk
           THEN /\ wresp' = WfResponse("deploy_agent", user_id, agent_id, 500,
                                       "database error", <<>>)
                /\ UNCHANGED agents
           ELSE IF updated = {}
           THEN /\ wresp' = WfResponse("deploy_agent", user_id, agent_id, 404,
                                       "Agent not found", <<>>)
                /\ UNCHANGED agents
           ELSE /\ agents' = {a \in agents : a.id # agent_id} \cup updated
                /\ wresp' = WfResponse("deploy_agent", user_id, agent_id, 200, "",
                                       <<CHOOSE a \in updated : TRUE>>)
        /\ UNCHANGED <<workflows, steps, metrics, nextId, pending, nextAgent>>
        /\ UNCHANGED notAgents

\* The ids an agent request may name: those of the stored agents, and one of none.
AgentIds == {a.id : a \in agents} \cup {0}

NextAgents ==
    \/ \E user_id \in UserIds, dbOk \in BOOLEAN : \E r \in StepwiseCreateRequests(user_id) :
         CreateWorkflowBegin(user_id, "n1", r, dbOk)
    \/ \E r \in pending, dbOk \in BOOLEAN : CreateWorkflowCall(r, dbOk)
    \/ \E workflow_id \in RequestIds, user_id \in UserIds, dbOk \in BOOLEAN :
         AddAgentCheck(workflow_id, Agent1, user_id, dbOk)
    \/ \E r \in pending, dbOk \in BOOLEAN : AddAgentInsert(r, dbOk)
    \/ \E agent_id \in AgentIds, user_id \in UserIds, dbOk \in BOOLEAN :
         DeployAgent(agent_id, user_id, dbOk)
    \/ \E workflow_id \in RequestIds, user_id \in UserIds, dbOk \in BOOLEAN :
         DeleteWorkflow(workflow_id, user_id, dbOk)

----------------------------------------------------------------------------
(* Prediction and anomaly detection: services/ml_service.py, api/ml_api.py  *)
(*                                                                         *)
(* A description is a sequence of runs <<word, count>>.  Numbers carry     *)
(* their unit in their name: x10 tenths, x100 hundredths, x1000            *)
(* thousandths.  The fields of the results that are only echoed or that    *)
(* report the trained model's feature importances are left out.            *)

\* round(num / den, 0) of Python 3: to the nearest integer, a tie to the even one.
RoundHalfEven(num, den) ==
    LET q == num \div den
        r == num % den
    IN  IF 2 * r > den THEN q + 1
        ELSE IF 2 * r < den THEN q
        ELSE q + (q % 2)

\* max(lo, min(x, hi))
Clip_Off(x, lo, hi) == x

Clip(x, lo, hi) == Max(lo, Min(x, hi))

\* len(description.split())
RECURSIVE WordCount(_)
WordCount(description) ==
    IF description = <<>> THEN 0 ELSE description[1][2] + WordCount(Tail(description))

complexity_keywords == {"complex", "multiple", "integration", "advanced", "critical"}

\* sum(1 for word in complexity_keywords if word in description.lower())
KeywordCount(description) ==
    Cardinality({k \in complexity_keywords :
                    \E i \in DOMAIN description : description[i][1] = k})

\* The requests.
Descriptions ==
    { <<>>,
      <<(<<"the", 10>>)>>,
      <<(<<"complex", 1>>), (<<"critical", 1>>), (<<"the", 60>>)>> }

ConfidenceLists == { None, Some(<<>>), Some(<<60>>), Some(<<90, 70>>), Some(<<900>>) }

PredictionRequests ==
    [ kind : {"predict"},
      description : Descriptions,
      agent_count : {1, 4},
      step_count : {1, 12},
      historical_avg_time10 : {0, 25, 120},
      confidence_scores100 : ConfidenceLists,
      workflow_age_days : {0, 30, 120},
      agent_performance_avg100 : {0, 85, 100} ]

AnomalyRequests ==
    [ kind : {"anomaly"},
      completion_time10 : {0, 35, 60, 72, 100},
      agent_count : {0, 2, 4, 5, 9},
      success_rate100 : {0, 40, 49, 50, 69, 70, 90, 100},
      error_count : {0, 5, 6, 11, 20} ]

NoRequest == [kind |-> "none"]

\* What the outside gives one call: the answer of the completion API and the
\* outputs of the three trained models.
GptAnswers ==
    { [kind |-> "fails", score100 |-> 0], [kind |-> "malformed", score100 |-> 0],
      [kind |-> "ok", score100 |-> 0], [kind |-> "ok", score100 |-> 100] }

RegressorOutputs10 == {-20, 3, 45}

ClassifierOutputs1000 == {0, 40, 640, 996, 1000}

\* AdvancedNLPAnalyzer.analyze_complexity_with_gpt: the score of the answer, or
\* of the fallback when the call fails (hundredths).
analyze_complexity_with_gpt(description, step_count, gpt) ==
    IF gpt.kind = "ok" THEN gpt.score100
    ELSE Min(WordCount(description) + 5 * step_count, 100)

\* PredictiveModel._calculate_complexity (hundredths); raised is the KeyError on an
\* answer without a complexity_score.
calculate_complexity(description, step_count, use_gpt, has_key, gpt) ==
    IF use_gpt /\ has_key
    THEN [raised |-> gpt.kind = "malformed",
          score100 |-> analyze_complexity_with_gpt(description, step_count, gpt)]
    ELSE [raised |-> FALSE,
          score100 |-> Min(Min(2 * WordCount(description), 100)
                             + 10 * KeywordCount(description)
                             + Min(5 * step_count, 50), 100)]

\* The trained-model branch of predict_completion_time.
TrainedTime(req, rf10, gb10) ==
    LET predicted100 == Max(50, 6 * rf10 + 4 * gb10)
    IN  [raised |-> FALSE,
         predicted_hours100 |-> predicted100,
         confidence1000 |-> Min(820 + 2 * Min(req.historical_avg_time10, 100), 950),
         range_min100 |-> RoundHalfEven(Max(88 * predicted100, 5000), 100),
         range_max100 |-> RoundHalfEven(112 * predicted100, 100)]

\* The heuristic branch of predict_completion_time.
HeuristicTime(req, has_key, gpt) ==
    LET complexity == calculate_complexity(req.description, req.step_count, TRUE, has_key, gpt)
        predicted1000 == 45 * complexity.score100 + 125 * req.agent_count
                           + 20 * req.historical_avg_time10 + 30 * req.step_count
    IN  [raised |-> complexity.raised,
         predicted_hours100 |-> RoundHalfEven(predicted1000, 10),
         confidence1000 |-> RoundHalfEven(7500 + 25 * Min(req.historical_avg_time10, 100), 10),
         range_min100 |-> RoundHalfEven(Max(85 * predicted1000, 50000), 1000),
         range_max100 |-> RoundHalfEven(115 * predicted1000, 1000)]

\* PredictiveModel.predict_completion_time
predict_completion_time(req, trained, has_key, gpt, rf10, gb10) ==
    IF trained THEN TrainedTime(req, rf10, gb10) ELSE HeuristicTime(req, has_key, gpt)

RECURSIVE Sum(_)
Sum(seq) == IF seq = <<>> THEN 0 ELSE seq[1] + Sum(Tail(seq))

\* request.confidence_scores or [0.8]
ScoresOrDefault(scores) == IF scores = None \/ scores = Some(<<>>) THEN <<80>> ELSE scores[1]

\* PredictiveModel.predict_success_probability.  The unit of the heuristic sum is
\* 1/900000: 0.40 * mean(scores) + 0.20 * min(age / 90, 1) + 0.25 * performance
\* + 0.15 * (1 - complexity).
predict_success_probability(req, trained, proba1000) ==
    LET scores     == ScoresOrDefault(req.confidence_scores100)
        complexity == calculate_complexity(req.description, req.step_count, FALSE, FALSE,
                                           [kind |-> "fails", score100 |-> 0])
        heuristic  == (3600 * Sum(scores)) \div Len(scores)
                        + 2000 * Min(req.workflow_age_days, 90)
                        + 2250 * req.agent_performance_avg100
                        + 1350 * (100 - complexity.score100)
        success900000 == IF trained
                         THEN Clip(900 * proba1000, 90000, 891000)
                         ELSE Clip(heuristic, 90000, 891000)
    IN  [success_probability1000 |-> RoundHalfEven(success900000, 900),
         risk_level |-> IF success900000 >= 765000 THEN "Low"
                        ELSE IF success900000 >= 630000 THEN "Medium"
                        ELSE "High"]

\* POST /ml/predict
PredictWorkflowMetrics(gpt, rf10, gb10, proba1000) ==
    /\ mlreq.kind = "predict"
    /\ mlresp = None
    /\ LET time_prediction == predict_completion_time(mlreq, models_loaded, api_key,
                                                      gpt, rf10, gb10)
           success_prediction == predict_success_probability(mlreq, models_loaded, proba1000)
       IN  mlresp' =
             IF time_prediction.raised
             THEN Some([status |-> 500, detail |-> "Prediction failed",
                        predicted_hours100 |-> 0, success_probability1000 |-> 0,
                        confidence1000 |-> 0, risk_level |-> "",
                        time_range |-> [min100 |-> 0, max100 |-> 0]])
             ELSE Some([status |-> 200, detail |-> "",
                        predicted_hours100 |-> time_prediction.predicted_hours100,
                        success_probability1000 |-> success_prediction.success_probability1000,
                        confidence1000 |-> time_prediction.confidence1000,
                        risk_level |-> success_prediction.risk_level,
                        time_range |-> [min100 |-> time_prediction.range_min100,
                                        max100 |-> time_prediction.range_max100]])
    /\ UNCHANGED <<mlreq, models_loaded, api_key>>
    /\ UNCHANGED notML

\* The success-rate test of detect_anomalies.
LowSuccessRate_Half(success_rate100) == success_rate100 < 50

LowSuccessRate(success_rate100) == success_rate100 < 70

\* AnomalyDetector.detect_anomalies.  A score is a number of 1/7200.
detect_anomalies(req) ==
    LET timeDev  == Abs(req.completion_time10 - 35)
        agentDev == Abs(10 * req.agent_count - 25)
        time     == IF timeDev > 24
                    THEN <<[type |-> "Abnormal Completion Time",
                            severity |-> IF timeDev > 36 THEN "High" ELSE "Medium",
                            score7200 |-> Min(200 * timeDev, 7200)]>>
                    ELSE <<>>
        agent    == IF agentDev > 16
                    THEN <<[type |-> "Unusual Agent Count", severity |-> "Low",
                            score7200 |-> Min(225 * agentDev, 3600)]>>
                    ELSE <<>>
        success  == IF LowSuccessRate(req.success_rate100)
                    THEN <<[type |-> "Low Success Rate",
                            severity |-> IF req.success_rate100 < 50 THEN "Critical" ELSE "High",
                            score7200 |-> 72 * (100 - req.success_rate100)]>>
                    ELSE <<>>
        errors   == IF req.error_count > 5
                    THEN <<[type |-> "High Error Count",
                            severity |-> IF req.error_count > 10 THEN "Critical" ELSE "High",
                            score7200 |-> Min(480 * req.error_count, 7200)]>>
                    ELSE <<>>
        anomalies == time \o agent \o success \o errors
        n        == Len(anomalies)
        total    == Sum([i \in 1..n |-> anomalies[i].score7200])
    IN  [is_anomaly |-> n > 0,
         anomaly_score1000 |-> IF n = 0 THEN 0 ELSE RoundHalfEven(1000 * total, 7200 * n),
         anomalies_detected |-> anomalies,
         severity |-> IF n > 0 /\ 10 * total > 7 * 7200 * n THEN "Critical"
                      ELSE IF n > 0 /\ 10 * total > 4 * 7200 * n THEN "High"
                      ELSE IF n > 0 /\ 10 * total > 2 * 7200 * n THEN "Medium"
                      ELSE "Low"]

\* POST /ml/detect-anomalies
DetectWorkflowAnomalies ==
    /\ mlreq.kind = "anomaly"
    /\ mlresp = None
    /\ mlresp' = Some(detect_anomalies(mlreq))
    /\ UNCHANGED <<mlreq, models_loaded, api_key>>
    /\ UNCHANGED notML

NextML ==
    \/ \E gpt \in GptAnswers, rf10 \in RegressorOutputs10, gb10 \in RegressorOutputs10,
          proba1000 \in ClassifierOutputs1000 :
         PredictWorkflowMetrics(gpt, rf10, gb10, proba1000)
    \/ DetectWorkflowAnomalies

----------------------------------------------------------------------------
(* Requests that carry a bearer token: get_current_user, logout (auth.py)   *)

\* What a client can send as its bearer token once it holds one: the token, the
\* token signed again under another key, and a token of the server's key whose
\* payload has no subject.
Resigned(token) == [token EXCEPT !.sig = <<"another-key", token.payload>>]

WithoutSubject(token) ==
    jwt_encode([token.payload EXCEPT !.sub = None], SECRET_KEY)

BearerTokens ==
    IF held = None THEN {}
    ELSE {held[1], Resigned(held[1]), WithoutSubject(held[1])}

\* An answer, with the time of the request and whether it came after a logout.
SessResponse(op, token, status, detail, user_id, at, after_logout) ==
    [op |-> op, token |-> token, status |-> status, detail |-> detail,
     user_id |-> user_id, at |-> at, after_logout |-> after_logout]

InitSession ==
    /\ held = None
    /\ logged_out = FALSE
    /\ sresp = SessResponse("none", None, 0, "", None, 0, FALSE)

\* The client keeps the access_token of the TokenResponse it was sent.
KeepToken ==
    /\ resp.token # None
    /\ held' = resp.token
    /\ logged_out' = FALSE
    /\ UNCHANGED sresp
    /\ UNCHANGED notSession

\* Depends(get_current_user) of a handler: the answer of the dependency.
Authenticated(op, token, message) ==
    LET who == get_current_user(token, now)
    IN  IF who.status = 200
        THEN SessResponse(op, Some(token), 200, message, who.user_id, now, logged_out)
        ELSE SessResponse(op, Some(token), who.status, who.detail, None, now, logged_out)

\* POST /logout
Logout(token) ==
    /\ sresp' = Authenticated("logout", token, "Successfully logged out")
    /\ logged_out' = (logged_out \/ sresp'.status = 200)
    /\ UNCHANGED held
    /\ UNCHANGED notSession

\* Any other request to a handler that depends on get_current_user.
AuthenticatedRequest(token) ==
    /\ sresp' = Authenticated("request", token, "")
    /\ UNCHANGED <<held, logged_out>>
    /\ UNCHANGED notSession

\* Signup and login with one password and a database that answers, the clock,
\* and the requests that carry the token the client kept.
SessionPassword == <<(<<"a", 8>>)>>

NextSession ==
    \/ \E email \in Emails : SignupCheck(email, SessionPassword, TRUE)
    \/ \E r \in inflight : SignupInsert(r, TRUE)
    \/ \E email \in Emails : Login(email, SessionPassword, TRUE)
    \/ Tick
    \/ KeepToken
    \/ \E token \in BearerTokens : Logout(token)
    \/ \E token \in BearerTokens : AuthenticatedRequest(token)

----------------------------------------------------------------------------
(* Metrics: api/metrics_api.py, services/metrics_tracking_service.py,      *)
(* WorkflowService.get_user_metrics                                        *)
(*                                                                         *)
(* A random generator is its seed and the number of draws made from it;    *)
(* a draw is a number of hundredths in 0..99, a function of the two.  Of a  *)
(* payload the fields timeRange, generatedAt, totalExecutions, totalCost,  *)
(* executionVolume, agentPerformance, costBreakdown and waitDistribution   *)
(* are kept.  Money is in cents in a payload, in 1/10000 dollar in a log.  *)

MaxRuns == 1

TimeRanges == {"24h", "7d", "30d", "90d"}

\* The ranges the requests ask for.
RequestRanges == {"24h", "7d"}

\* scale_factors.get(time_range, 1)
Scale(time_range) ==
    IF time_range = "7d" THEN 7 ELSE IF time_range = "30d" THEN 30
    ELSE IF time_range = "90d" THEN 90 ELSE 1

\* range_mapping.get(time_range, timedelta(days=7)), in minutes
Delta(time_range) ==
    IF time_range = "24h" THEN 1440 ELSE IF time_range = "30d" THEN 43200
    ELSE IF time_range = "90d" THEN 129600 ELSE 10080

\* datetime.now().strftime("%Y-%m-%d"): the number of the day
Today(clock) == clock \div 1440

\* A generator that was seeded and has made no draw.
Seeded(seed) == [seed |-> seed, n |-> 0]

\* random.Random(seed): a generator of its own.
Random_Shared(seed) == random_state

Random(seed) == Seeded(seed)

\* The k-th draw from generator g, and g after k draws.
Draw(g, k) ==
    LET i == g.n + k
    IN  (Sum(g.seed) * 37 + Len(g.seed) * 11 + i * 53 + ((Sum(g.seed) * i) % 7)) % 100

After(g, k) == [g EXCEPT !.n = g.n + k]

\* get_seed: the md5 digest of "user-today-range", taken to be free of
\* collisions: the parts of the string, as numbers.
get_seed(user_id, clock, time_range) ==
    user_id \o <<Today(clock), Scale(time_range)>>

Payload(timeRange, generatedAt, totalExecutions, totalCost100, executionVolume, agentPerformance, costBreakdown100, waitDistribution) ==
    [timeRange |-> timeRange, generatedAt |-> generatedAt,
     totalExecutions |-> totalExecutions, totalCost100 |-> totalCost100,
     executionVolume |-> executionVolume, agentPerformance |-> agentPerformance,
     costBreakdown100 |-> costBreakdown100, waitDistribution |-> waitDistribution]

\* generate_empty_metrics
generate_empty_metrics(time_range) ==
    Payload(time_range, None, None, 0, [i \in 1..12 |-> 0], {}, <<>>, <<>>)

\* The shares of the cost breakdown, in percent.
CostShares == <<45, 25, 15, 10, 5>>

\* The four simulated agents: the bases and spans of their draws, the number of
\* the first draw, and the statuses on either side of the threshold.
SimulatedAgents ==
    << [name |-> "Email Processor", success |-> <<960, 35>>, latency |-> <<30, 25>>,
        executions |-> <<5000, 3000>>, first |-> 13, threshold |-> 30,
        above |-> "optimal", below |-> "good"],
       [name |-> "Data Analyzer", success |-> <<930, 40>>, latency |-> <<80, 60>>,
        executions |-> <<3000, 2000>>, first |-> 17, threshold |-> 40,
        above |-> "good", below |-> "moderate"],
       [name |-> "Response Generator", success |-> <<970, 25>>, latency |-> <<25, 20>>,
        executions |-> <<4000, 2500>>, first |-> 21, threshold |-> -1,
        above |-> "optimal", below |-> "optimal"],
       [name |-> "Document Parser", success |-> <<900, 50>>, latency |-> <<120, 80>>,
        executions |-> <<1500, 1500>>, first |-> 24, threshold |-> 50,
        above |-> "moderate", below |-> "good"] >>

\* generate_metrics_data
generate_metrics_data(user_id, time_range, clock) ==
    LET rng        == Random(get_seed(user_id, clock, time_range))
        scale      == Scale(time_range)
        total_cost == RoundHalfEven((3500 + 20 * Draw(rng, 1)) * scale, 100)
        agent(a)   == [name |-> a.name,
                       success10 |-> RoundHalfEven(100 * a.success[1]
                                        + a.success[2] * Draw(rng, a.first), 100),
                       latency |-> RoundHalfEven(100 * a.latency[1]
                                        + a.latency[2] * Draw(rng, a.first + 1), 100),
                       executions |-> (a.executions[1]
                                        + (a.executions[2] * Draw(rng, a.first + 2)) \div 100)
                                      * scale,
                       status |-> IF a.threshold < 0 \/ Draw(rng, a.first + 3) > a.threshold
                                  THEN a.above ELSE a.below]
        queue      == RoundHalfEven(1500 + 15 * Draw(rng, 40), 100)
        processing == RoundHalfEven(13000 + 50 * Draw(rng, 41), 100)
        response   == RoundHalfEven(2500 + 20 * Draw(rng, 42), 100)
        total_wait == queue + processing + response
    IN  Payload(time_range, Some(clock), None, 100 * total_cost,
                [i \in 1..12 |->
                    RoundHalfEven(400000 + 6 * Draw(rng, 27 + i) * (1000 + 5 * scale), 10000)],
                {agent(SimulatedAgents[j]) : j \in 1..4},
                [j \in 1..5 |-> 100 * RoundHalfEven(total_cost * CostShares[j], 100)],
                << [value |-> queue, percent |-> RoundHalfEven(100 * queue, total_wait)],
                   [value |-> processing, percent |-> RoundHalfEven(100 * processing, total_wait)],
                   [value |-> response, percent |-> RoundHalfEven(100 * response, total_wait)] >>)

\* The sum of a numeric column over a set of rows.
RECURSIVE SumColumn(_, _)
SumColumn(rows, column) ==
    IF rows = {} THEN 0
    ELSE LET r == CHOOSE x \in rows : TRUE
         IN  r[column] + SumColumn(rows \ {r}, column)

\* The largest element of a sequence of naturals.
RECURSIVE MaxOf(_)
MaxOf(seq) == IF seq = <<>> THEN 0 ELSE Max(seq[1], MaxOf(Tail(seq)))

\* MetricsTrackingService._calculate_execution_volume
calculate_execution_volume(logs, delta, clock) ==
    LET bucket_index(l) ==
            LET idx == (12 * (clock - l.executed_at)) \div delta
            IN  IF idx > 11 THEN 11 ELSE idx
        volume  == [i \in 1..12 |->
                      Cardinality({l \in logs : 12 - bucket_index(l) = i})]
        max_val == IF MaxOf(volume) > 0 THEN MaxOf(volume) ELSE 1
    IN  [i \in 1..12 |-> IF volume[i] > 0 THEN (80 * volume[i]) \div max_val + 20 ELSE 0]

\* The rows the select of get_aggregated_metrics returns.
LogsInRange(user_id, time_range, clock) ==
    {l \in execution_logs :
        l.user_id = user_id /\ l.executed_at >= clock - Delta(time_range)}

\* MetricsTrackingService.get_aggregated_metrics: None when the select raises
\* or returns no row.
get_aggregated_metrics(user_id, time_range, clock, dbOk) ==
    LET logs             == LogsInRange(user_id, time_range, clock)
        total_executions == Cardinality(logs)
        total_latency    == SumColumn(logs, "latency_ms")
        total_cost       == SumColumn(logs, "cost10000")
        roles            == {l.agent_role : l \in logs}
        stats(role)      ==
            LET own     == {l \in logs : l.agent_role = role}
                total   == Cardinality(own)
                success == Cardinality({l \in own : l.success})
            IN  [name |-> role,
                 success10 |-> RoundHalfEven(1000 * success, total),
                 latency |-> RoundHalfEven(SumColumn(own, "latency_ms"), total),
                 executions |-> total,
                 status |-> IF 100 * success > 97 * total THEN "optimal"
                            ELSE IF 100 * success > 90 * total THEN "good"
                            ELSE "moderate"]
        wait(share)      == (share * total_latency) \div (100 * total_executions)
    IN  IF ~dbOk \/ logs = {} THEN None
        ELSE Some(Payload(time_range, Some(clock), Some(total_executions),
                          RoundHalfEven(total_cost, 100),
                          calculate_execution_volume(logs, Delta(time_range), clock),
                          {stats(role) : role \in roles},
                          [j \in 1..5 |-> RoundHalfEven(total_cost * CostShares[j], 10000)],
                          << [value |-> wait(15), percent |-> 15],
                             [value |-> wait(70), percent |-> 70],
                             [value |-> wait(15), percent |-> 15] >>))

\* WorkflowService.get_user_workflows: the empty list when the select raises.
get_user_workflows_All(user_id, dbOk) == workflows

get_user_workflows(user_id, dbOk) ==
    IF dbOk THEN {w \in workflows : OwnedBy(w, user_id)} ELSE {}

\* WorkflowService.get_user_metrics
get_user_metrics(user_id, dbOk) ==
    LET found            == get_user_workflows(user_id, dbOk)
        ids              == {w.id : w \in found}
        total_workflows  == Cardinality(found)
        active_agents    == Cardinality({a \in agents :
                                /\ a.workflow_id \in ids
                                /\ a.status \in {"Active", "Deploying"}})
        total_automation == SumColumn({m \in metrics : m.workflow_id \in ids},
                                      "automation_rate")
    IN  [totalWorkflows |-> total_workflows,
         activeAgents |-> active_agents,
         avgAutomation |-> IF total_workflows > 0
                           THEN total_automation \div total_workflows ELSE 0]

MetResponse(op, caller, range, status, body, executions_logged) ==
    [op |-> op, caller |-> caller, range |-> range, status |-> status,
     body |-> body, executions_logged |-> executions_logged]

\* The seeds the process-wide generator may start from.
ProcessSeeds == {<<3>>}

InitMetrics ==
    /\ execution_logs = {}
    /\ random_state \in {Seeded(seed) : seed \in ProcessSeeds}
    /\ runs = 0
    /\ kept = None
    /\ mresp = MetResponse("none", <<>>, "", 0, None, 0)

\* GET /metrics
GetUserMetrics(user_id, dbOk) ==
    /\ mresp' = MetResponse("get_user_metrics", user_id, "", 200,
                            Some(get_user_metrics(user_id, dbOk)), 0)
    /\ UNCHANGED <<execution_logs, random_state, runs, kept, now>>
    /\ UNCHANGED notMetrics

\* GET /metrics/telemetry
get_telemetry_metrics(range, user_id, wfOk, logOk) ==
    LET found        == get_user_workflows(user_id, wfOk)
        real_metrics == get_aggregated_metrics(user_id, range, now, logOk)
    IN  IF found = {} THEN generate_empty_metrics(range)
        ELSE IF real_metrics # None /\ real_metrics[1].totalExecutions[1] > 0
        THEN real_metrics[1]
        ELSE generate_metrics_data(user_id, range, now)

GetTelemetryMetrics(range, user_id, wfOk, logOk) ==
    /\ mresp' = MetResponse("get_telemetry_metrics", user_id, range, 200,
                            Some(get_telemetry_metrics(range, user_id, wfOk, logOk)), 0)
    /\ UNCHANGED <<execution_logs, random_state, runs, kept, now>>
    /\ UNCHANGED notMetrics

\* The dashboard keeps the telemetry payload it was sent.
KeepPayload ==
    /\ mresp.op = "get_telemetry_metrics"
    /\ kept' = Some([caller |-> mresp.caller, body |-> mresp.body[1]])
    /\ UNCHANGED <<execution_logs, random_state, runs, mresp, now>>
    /\ UNCHANGED notMetrics

sample_roles == <<"Data Processor", "Email Handler", "Document Analyzer",
                  "Validator", "Orchestrator">>

\* The values of one logged execution, from three draws of generator g after
\* `before` draws: random.randint(50, 500), random.random() > threshold,
\* round(random.uniform(0.001, 0.01), 4).
Execution(g, before, threshold) ==
    [latency_ms |-> 50 + (451 * Draw(g, before + 1)) \div 100,
     success    |-> Draw(g, before + 2) > threshold,
     cost10000  |-> RoundHalfEven(1000 + 90 * Draw(g, before + 3), 100)]

\* MetricsTrackingService.log_execution: the row of one insert.
log_execution(id, user_id, workflow_id, agent_id, agent_role, e, clock) ==
    [id |-> id, user_id |-> user_id, workflow_id |-> workflow_id,
     agent_id |-> agent_id, agent_role |-> agent_role,
     latency_ms |-> e.latency_ms, success |-> e.success,
     cost10000 |-> e.cost10000, executed_at |-> clock]

\* The table after the inserts of one request.
Inserted(rows) == execution_logs \cup rows

\* The agents of a workflow, in the order of their ids.
RECURSIVE AgentList(_)
AgentList(set) ==
    IF set = {} THEN <<>>
    ELSE LET a == CHOOSE x \in set : \A y \in set : x.id <= y.id
         IN  <<a>> \o AgentList(set \ {a})

\* The inserts of one request that succeed: all, all but the first.
StoredSets(count) == {1..count, 2..count}

\* POST /metrics/run-workflow/{workflow_id}: workflow_id is None when the path
\* does not hold a UUID; the inserts whose numbers are in `stored` succeed.
RunWorkflowAndLog(workflow_id, user_id, wfOk, stored) ==
    LET found  == IF workflow_id # None /\ wfOk
                  THEN {w \in workflows : w.id = workflow_id[1] /\ OwnedBy(w, user_id)}
                  ELSE {}
        agentL == AgentList({a \in agents : \E w \in found : a.workflow_id = w.id})
        count  == IF agentL = <<>> THEN 3 + (3 * Draw(random_state, 1)) \div 100
                  ELSE Len(agentL)
        row(i) == IF agentL = <<>>
                  THEN log_execution(RowId(runs + 1, i), user_id, workflow_id, None,
                                     sample_roles[((i - 1) % Len(sample_roles)) + 1],
                                     Execution(random_state, 1 + 3 * (i - 1), 10), now)
                  ELSE log_execution(RowId(runs + 1, i), user_id, workflow_id,
                                     Some(agentL[i].id), agentL[i].role,
                                     Execution(random_state, 3 * (i - 1), 5), now)
        draws  == IF agentL = <<>> THEN 1 + 3 * count ELSE 3 * count
    IN  /\ runs < MaxRuns
        /\ stored \in StoredSets(count)
        /\ runs' = runs + 1
        /\ execution_logs' = Inserted({row(i) : i \in stored})
        /\ random_state' = After(random_state, draws)
        /\ mresp' = MetResponse("run_workflow_and_log", user_id, "", 200, None,
                                Cardinality(stored))
        /\ UNCHANGED <<kept, now>>
        /\ UNCHANGED notMetrics

\* The requests of the first user, who creates and deletes workflows, and of
\* the second one, who has none.
NextMetrics ==
    \/ \E r \in StepwiseCreateRequests(ToStr(1)) :
          nextId <= MaxStepwise /\ CreateWorkflow(ToStr(1), "w", r.steps, r.agents, r.metrics, 0)
    \/ \E w \in workflows : DeleteWorkflow(w.id, w.user_id, TRUE)
    \/ Tick
    \/ \E user_id \in UserIds, dbOk \in BOOLEAN : GetUserMetrics(user_id, dbOk)
    \/ \E user_id \in UserIds, wfOk \in BOOLEAN, logOk \in BOOLEAN :
          GetTelemetryMetrics("24h", user_id, wfOk, logOk)
    \/ \E workflow_id \in {None} \cup {Some(w.id) : w \in workflows}, user_id \in UserIds,
          wfOk \in BOOLEAN : \E stored \in SUBSET (1..5) :
          RunWorkflowAndLog(workflow_id, user_id, wfOk, stored)

\* The reads that list a user's workflows, with a database that may fail,
\* while the first user creates, runs and deletes a workflow.
NextListing ==
    \/ \E r \in StepwiseCreateRequests(ToStr(1)) :
          nextId <= MaxStepwise /\ CreateWorkflow(ToStr(1), "w", r.steps, r.agents, r.metrics, 0)
    \/ \E w \in workflows : DeleteWorkflow(w.id, w.user_id, TRUE)
    \/ \E user_id \in UserIds, dbOk \in BOOLEAN : GetWorkflows(user_id, dbOk)
    \/ \E user_id \in UserIds, dbOk \in BOOLEAN : GetUserMetrics(user_id, dbOk)
    \/ \E user_id \in UserIds, wfOk \in BOOLEAN, logOk \in BOOLEAN :
          GetTelemetryMetrics("24h", user_id, wfOk, logOk)
    \/ \E w \in workflows : \E stored \in SUBSET (1..5) :
          RunWorkflowAndLog(Some(w.id), w.user_id, TRUE, stored)

\* The hours the dashboard is watched.
MaxHours == 24

\* Time passes: a third of a day.
EightHours ==
    /\ now < 60 * MaxHours
    /\ now' = now + 480
    /\ UNCHANGED <<users, inflight, resp>>
    /\ UNCHANGED notAuth

\* The dashboard of the first user, who keeps a payload and asks again, while
\* workflows run.
NextDashboard ==
    \/ \E r \in StepwiseCreateRequests(ToStr(1)) :
          nextId <= MaxStepwise /\ CreateWorkflow(ToStr(1), "w", r.steps, r.agents, r.metrics, 0)
    \/ EightHours
    \/ \E range \in RequestRanges, wfOk \in BOOLEAN, logOk \in BOOLEAN :
          GetTelemetryMetrics(range, ToStr(1), wfOk, logOk)
    \/ KeepPayload
    \/ \E user_id \in UserIds : \E stored \in SUBSET (1..5) :
          RunWorkflowAndLog(None, user_id, TRUE, stored)

----------------------------------------------------------------------------
(* Architecture generation: services/agent_service.py                      *)
(*                                                                         *)
(* A description is None or a sequence of words.  Of a blueprint the fields *)
(* agent_id, name, role, system_prompt, model, performance_metric and      *)
(* executions_count are kept; an agent_id is its prefix and its suffix.    *)

\* str.lower(), on the words of the requests.
Lower(word) ==
    CASE word = "Invoice"  -> "invoice"
      [] word = "RECEIPTS" -> "receipts"
      [] OTHER             -> word

\* keyword in description_lower
Within(keyword, description) ==
    \E i \in DOMAIN description :
        \/ Lower(description[i]) = keyword
        \/ keyword = "receipt" /\ Lower(description[i]) = "receipts"

ArchDescriptions ==
    { None, Some(<<>>), Some(<<"send", "email">>), Some(<<"pay", "Invoice">>),
      Some(<<"scan", "RECEIPTS">>), Some(<<"invoice", "receipt">>) }

\* os.getenv("OPENAI_MODEL", "gpt-4")
OpenAIModel == "gpt-4"

Blueprint(agent_id, name, role, system_prompt, model, performance_metric, executions_count) ==
    [agent_id |-> agent_id, name |-> name, role |-> role,
     system_prompt |-> system_prompt, model |-> model,
     performance_metric |-> performance_metric,
     executions_count |-> executions_count]

\* The outcome of a call: the exception it raised, if any, or the list it
\* returned.
Raised(exception) == [raised |-> Some(exception), blueprints |-> <<>>]

Returned(blueprints) == [raised |-> None, blueprints |-> blueprints]

\* AgenticArchitectureService._generate_mock_architecture
MockCoordinator ==
    Blueprint(<<"mock", "1">>, "Workflow Coordinator", "Workflow Coordinator", "Manage state",
              OpenAIModel, 95, 1200)

generate_mock_architecture(workflow_description) ==
    IF workflow_description = None THEN Raised("AttributeError")
    ELSE LET description_lower == workflow_description[1]
             documents ==
                 IF Within("invoice", description_lower) \/ Within("receipt", description_lower)
                 THEN <<Blueprint(<<"mock", "2">>, "Document Processor", "Document Processor",
                                  "Extract data", "gpt-3.5-turbo", 98, 15420)>>
                 ELSE <<>>
             agentList == <<MockCoordinator>> \o documents
         IN  Returned(IF Len(agentList) = 1
                      THEN agentList \o <<Blueprint(<<"mock", "default">>, "Task Executor",
                                                    "Task Executor", "Execute tasks",
                                                    OpenAIModel, 95, 1200)>>
                      ELSE agentList)

\* What the completion API does: the call raises, or its content is not JSON,
\* or is JSON that is no object, or is an object, with or without "agents".
LlmAgent(role, description, performance_metric) ==
    [role |-> role, description |-> description, performance_metric |-> performance_metric]

LlmAnswers ==
    { [kind |-> "raises", agents |-> None],
      [kind |-> "text", agents |-> None],
      [kind |-> "list", agents |-> None],
      [kind |-> "object", agents |-> None],
      [kind |-> "object", agents |-> Some(<<>>)],
      [kind |-> "object",
       agents |-> Some(<<LlmAgent(Some("Coordinator"), Some("d"), Some(90))>>)],
      [kind |-> "object",
       agents |-> Some(<<LlmAgent(Some("Coordinator"), Some("d"), None),
                         LlmAgent(Some("Parser"), Some("d"), None)>>)],
      [kind |-> "object",
       agents |-> Some(<<LlmAgent(Some("Coordinator"), Some("d"), None),
                         LlmAgent(None, Some("d"), None)>>)] }

\* The agents of an answer the loop goes through before AgentBlueprint refuses
\* one (a name or a system_prompt that is None), that one included.
RECURSIVE Visited(_)
Visited(agentList) ==
    IF agentList = <<>> THEN <<>>
    ELSE IF agentList[1].role = None \/ agentList[1].description = None
    THEN <<agentList[1]>>
    ELSE <<agentList[1]>> \o Visited(Tail(agentList))

\* The blueprint of the i-th agent of an answer: three draws from the random
\* module, for the id and for the two defaults.
LlmBlueprint(agent, i) ==
    LET before == 3 * (i - 1)
    IN  Blueprint(<<"gen", 1000 + 90 * Draw(random_state, before + 1)>>,
                  agent.role[1], agent.role[1], agent.description[1], OpenAIModel,
                  IF agent.performance_metric # None THEN agent.performance_metric[1]
                  ELSE 85 + (15 * Draw(random_state, before + 2)) \div 100,
                  1000 + 490 * Draw(random_state, before + 3))

\* AgenticArchitectureService.generate_architecture
generate_architecture(workflow_description, has_key, llm) ==
    IF ~has_key THEN generate_mock_architecture(workflow_description)
    ELSE IF llm.kind # "object" THEN generate_mock_architecture(workflow_description)
    ELSE LET agentList == IF llm.agents = None THEN <<>> ELSE llm.agents[1]
         IN  IF \E i \in DOMAIN agentList :
                    agentList[i].role = None \/ agentList[i].description = None
             THEN generate_mock_architecture(workflow_description)
             ELSE Returned([i \in DOMAIN agentList |-> LlmBlueprint(agentList[i], i)])

\* The draws of one call from the random module.
ArchitectureDraws(has_key, llm) ==
    IF has_key /\ llm.kind = "object" /\ llm.agents # None
    THEN 3 * Len(Visited(llm.agents[1])) ELSE 0

\* The draws generate_architecture may make.
MaxArchDraws == 6

IdleArchitecture ==
    aresp = [description |-> None, llm |-> None, raised |-> None, blueprints |-> <<>>]

\* One call of the service.
GenerateArchitecture(workflow_description, llm) ==
    LET outcome == generate_architecture(workflow_description, api_key, llm)
        draws   == ArchitectureDraws(api_key, llm)
    IN  /\ random_state.n + draws <= MaxArchDraws
        /\ aresp' = [description |-> workflow_description, llm |-> Some(llm),
                     raised |-> outcome.raised, blueprints |-> outcome.blueprints]
        /\ random_state' = After(random_state, draws)
        /\ UNCHANGED api_key
        /\ UNCHANGED <<users, inflight, now, resp, wfVars, mlreq, models_loaded, mlresp,
                       sessVars, agVars, execution_logs, runs, kept, mresp, dbVars>>

NextArchitecture ==
    \E workflow_description \in ArchDescriptions, llm \in LlmAnswers :
        GenerateArchitecture(workflow_description, llm)

----------------------------------------------------------------------------
(* The database client (database/supabase_client.py)                       *)

\* The calls of get_supabase_client one process is followed for.
MaxCalls == 6

\* The calls of _TableQuery.execute one process is followed for.
MaxQueries == 2

\* The services built while main.py is imported (workflow_api imports
\* workflow_service); the constructor asks for the client.
ServiceConstructors == <<"WorkflowService">>

\* The service built by the first metrics request that imports its module.
LateConstructors == {"MetricsTrackingService"}

\* The handlers that ask for the client themselves.  All are coroutines
\* (async def) of one event loop, and get_supabase_client does not await: a
\* call runs from its test to its return without another call in between.
ClientHandlers == {"signup", "login", "analyze_workflow"}

\* The _DBClient the module builds when it is imported without the library.
DBClient == 0

\* The variant that builds a client on every call.
get_supabase_client_Eager(sdk, client, calls, created) ==
    IF sdk
    THEN [client |-> Some(calls + 1), calls |-> calls + 1, handle |-> Some(calls + 1)]
    ELSE [client |-> client, calls |-> calls, handle |-> client]

\* get_supabase_client: the handle it returns, the module's handle afterwards
\* and the number of create_client invocations afterwards.  created says
\* whether create_client returns a client or raises; a client it returns is a
\* new object, named by the number of the invocation.
get_supabase_client(sdk, client, calls, created) ==
    IF sdk
    THEN IF client = None
         THEN [client |-> IF created THEN Some(calls + 1) ELSE None,
               calls |-> calls + 1,
               handle |-> IF created THEN Some(calls + 1) ELSE None]
         ELSE [client |-> client, calls |-> calls, handle |-> client]
    ELSE [client |-> client, calls |-> calls, handle |-> client]

\* No query runs.
NoConnection == [state |-> "none", rows |-> {}, committed |-> FALSE, rolled_back |-> FALSE]
IdleQuery == [pc |-> "idle", query |-> None, done |-> 0, exc |-> {}, before |-> {}]

\* A process that has not asked for the client.
IdleClient ==
    /\ SUPABASE_SDK_AVAILABLE = TRUE
    /\ supabase_client = None
    /\ create_calls = 0
    /\ handed = <<>>
    /\ db_rows = {}
    /\ conn = NoConnection
    /\ exec = IdleQuery
    /\ qresult = <<>>

\* The module after its import: with the library the handle is not built
\* yet, without it the handle is the _DBClient.
ImportClient ==
    /\ SUPABASE_SDK_AVAILABLE \in BOOLEAN
    /\ supabase_client = IF SUPABASE_SDK_AVAILABLE THEN None ELSE Some(DBClient)
    /\ create_calls = 0
    /\ handed = <<>>
    /\ db_rows = {}
    /\ conn = NoConnection
    /\ exec = IdleQuery
    /\ qresult = <<>>

\* One call of get_supabase_client.  An exception of create_client leaves the
\* caller without a handle.
GetSupabaseClient(caller, created) ==
    LET got == get_supabase_client(SUPABASE_SDK_AVAILABLE, supabase_client, create_calls, created)
    IN  /\ Len(handed) < MaxCalls
        /\ supabase_client' = got.client
        /\ create_calls' = got.calls
        /\ handed' = Append(handed, [caller |-> caller, handle |-> got.handle])
        /\ UNCHANGED <<SUPABASE_SDK_AVAILABLE, db_rows, conn, exec, qresult>>
        /\ UNCHANGED <<authVars, wfVars, mlVars, sessVars, agVars, metVars, archVars>>

\* The import of main.py builds the services one after the other; an
\* exception of a constructor ends the process before it serves a request.
\* The handlers run once the import is over, and a module is imported once.
NextClient ==
    \/ /\ Len(handed) < Len(ServiceConstructors)
       /\ \A i \in 1..Len(handed) : handed[i].handle # None
       /\ \E created \in BOOLEAN :
             GetSupabaseClient(ServiceConstructors[Len(handed) + 1], created)
    \/ /\ Len(handed) >= Len(ServiceConstructors)
       /\ \A i \in 1..Len(ServiceConstructors) : handed[i].handle # None
       /\ \E caller \in ClientHandlers, created \in BOOLEAN :
             GetSupabaseClient(caller, created)
    \/ /\ Len(handed) >= Len(ServiceConstructors)
       /\ \A i \in 1..Len(ServiceConstructors) : handed[i].handle # None
       /\ \E caller \in LateConstructors, created \in BOOLEAN :
             /\ \A i \in 1..Len(handed) : handed[i].caller # caller
             /\ GetSupabaseClient(caller, created)

\* The queries: insert(list of rows), update(...).eq("id", k),
\* delete().eq("id", k) and select().
TableQueries ==
    {[kind |-> "insert", items |-> items, key |-> 0] :
        items \in {<<>>, <<1>>, <<2>>, <<1, 2>>, <<2, 2>>}}
    \cup {[kind |-> kind, items |-> <<>>, key |-> k] : kind \in {"update", "delete"}, k \in {1}}
    \cup {[kind |-> "select", items |-> <<>>, key |-> 0]}

\* The number of cursor.execute calls a query makes when none raises.
Statements(query) == IF query.kind = "insert" THEN Len(query.items) ELSE 1

\* The rows the transaction sees after the next statement of the query.
AfterStatement(rows, query, done) ==
    CASE query.kind = "insert" -> rows \cup {[id |-> query.items[done + 1], v |-> 0]}
      [] query.kind = "update" ->
            {IF r.id = query.key THEN [r EXCEPT !.v = 1] ELSE r : r \in rows}
      [] query.kind = "delete" -> {r \in rows : r.id # query.key}
      [] OTHER -> rows

\* The statement the database refuses whatever else happens: an insert of a
\* key the table holds.  An insert of no rows raises before any statement
\* (self._insert_data[0]).
Refused(rows, query, done) ==
    /\ query.kind = "insert"
    /\ \/ query.items = <<>>
       \/ \E r \in rows : r.id = query.items[done + 1]

\* get_db_connection, entered: psycopg2.connect returns a connection or
\* raises; an exception here reaches the caller of execute with no
\* connection made.
Connect(query, ok) ==
    /\ ~SUPABASE_SDK_AVAILABLE
    /\ exec.pc = "idle"
    /\ Len(qresult) < MaxQueries
    /\ IF ok
       THEN /\ conn' = [state |-> "open", rows |-> db_rows, committed |-> FALSE,
                        rolled_back |-> FALSE]
            /\ exec' = [pc |-> "body", query |-> Some(query), done |-> 0, exc |-> {},
                        before |-> db_rows]
            /\ UNCHANGED qresult
       ELSE /\ conn' = NoConnection
            /\ exec' = IdleQuery
            /\ qresult' = Append(qresult, [query |-> query, outcome |-> "raised",
                                           exc |-> {"connect"}, conn |-> NoConnection,
                                           before |-> db_rows, after |-> db_rows])
    /\ UNCHANGED <<SUPABASE_SDK_AVAILABLE, supabase_client, create_calls, handed, db_rows>>
    /\ UNCHANGED <<authVars, wfVars, mlVars, sessVars, agVars, metVars, archVars>>

\* The body of the with block, one cursor.execute per step.  After the last
\* statement the body returns its result, which leaves the with block
\* normally.
Statement(ok) ==
    LET query == exec.query[1]
    IN  /\ exec.pc = "body"
        /\ IF ok /\ ~Refused(conn.rows, query, exec.done)
           THEN /\ conn' = [conn EXCEPT !.rows = AfterStatement(conn.rows, query, exec.done)]
                /\ exec' = [exec EXCEPT !.done = exec.done + 1,
                               !.pc = IF exec.done + 1 = Statements(query)
                                      THEN "commit" ELSE "body"]
           ELSE /\ exec' = [exec EXCEPT !.pc = "except", !.exc = {"query"}]
                /\ UNCHANGED conn
        /\ UNCHANGED <<SUPABASE_SDK_AVAILABLE, supabase_client, create_calls, handed,
                       db_rows, qresult>>
        /\ UNCHANGED <<authVars, wfVars, mlVars, sessVars, agVars, metVars, archVars>>

\* conn.commit() after the yield; it is inside the try, so an exception of
\* the commit is handled like one of the body.
Commit(ok) ==
    /\ exec.pc = "commit"
    /\ IF ok
       THEN /\ db_rows' = conn.rows
            /\ conn' = [conn EXCEPT !.committed = TRUE]
            /\ exec' = [exec EXCEPT !.pc = "finally"]
       ELSE /\ exec' = [exec EXCEPT !.pc = "except", !.exc = {"commit"}]
            /\ UNCHANGED <<db_rows, conn>>
    /\ UNCHANGED <<SUPABASE_SDK_AVAILABLE, supabase_client, create_calls, handed, qresult>>
    /\ UNCHANGED <<authVars, wfVars, mlVars, sessVars, agVars, metVars, archVars>>

\* The variant whose except branch re-raises without a rollback.
Rollback_Skipped(ok) ==
    /\ exec.pc = "except"
    /\ exec' = [exec EXCEPT !.pc = "finally"]
    /\ UNCHANGED <<SUPABASE_SDK_AVAILABLE, supabase_client, create_calls, handed,
                   db_rows, conn, qresult>>
    /\ UNCHANGED <<authVars, wfVars, mlVars, sessVars, agVars, metVars, archVars>>

\* except Exception: conn.rollback(); raise.  A rollback that raises (the
\* connection was lost) replaces the exception on its way out.
Rollback(ok) ==
    /\ exec.pc = "except"
    /\ IF ok
       THEN /\ conn' = [conn EXCEPT !.rolled_back = TRUE, !.rows = db_rows]
            /\ exec' = [exec EXCEPT !.pc = "finally"]
       ELSE /\ exec' = [exec EXCEPT !.pc = "finally", !.exc = exec.exc \cup {"rollback"}]
            /\ UNCHANGED conn
    /\ UNCHANGED <<SUPABASE_SDK_AVAILABLE, supabase_client, create_calls, handed,
                   db_rows, qresult>>
    /\ UNCHANGED <<authVars, wfVars, mlVars, sessVars, agVars, metVars, archVars>>

\* finally: conn.close(), and control is back with the caller of execute,
\* with the result of the body or with the exception.
Close ==
    /\ exec.pc = "finally"
    /\ conn' = [conn EXCEPT !.state = "closed"]
    /\ qresult' = Append(qresult,
                     [query |-> exec.query[1],
                      outcome |-> IF exec.exc = {} THEN "returned" ELSE "raised",
                      exc |-> exec.exc,
                      conn |-> [conn EXCEPT !.state = "closed"],
                      before |-> exec.before,
                      after |-> db_rows])
    /\ exec' = IdleQuery
    /\ UNCHANGED <<SUPABASE_SDK_AVAILABLE, supabase_client, create_calls, handed, db_rows>>
    /\ UNCHANGED <<authVars, wfVars, mlVars, sessVars, agVars, metVars, archVars>>

NextConnection ==
    \/ \E query \in TableQueries, ok \in BOOLEAN : Connect(query, ok)
    \/ \E ok \in BOOLEAN : Statement(ok)
    \/ \E ok \in BOOLEAN : Commit(ok)
    \/ \E ok \in BOOLEAN : Rollback(ok)
    \/ Close

----------------------------------------------------------------------------
(* Specifications                                                          *)

\* The ml router at rest: no request, the models not loaded, no API key.
IdleML ==
    /\ mlreq = NoRequest
    /\ models_loaded = FALSE
    /\ api_key = FALSE
    /\ mlresp = None

\* One request to the ml router, in a process with or without the trained
\* models and the API key.
InitML ==
    /\ \/ mlreq \in PredictionRequests
       \/ mlreq \in AnomalyRequests
    /\ models_loaded \in BOOLEAN
    /\ api_key \in BOOLEAN
    /\ mlresp = None

Init == InitAuth /\ InitWf /\ IdleML /\ InitSession /\ InitAgents /\ InitMetrics
          /\ IdleArchitecture /\ IdleClient

SpecAuth == Init /\ [][NextAuth]_vars

SpecWorkflow == Init /\ [][NextWorkflow]_vars

\* The start of a process that is given one request to the ml router.
InitRequest == InitAuth /\ InitWf /\ InitML /\ InitSession /\ InitAgents /\ InitMetrics
                 /\ IdleArchitecture /\ IdleClient

SpecML == InitRequest /\ [][NextML]_vars

SpecSession == Init /\ [][NextSession]_vars

SpecAgents == Init /\ [][NextAgents]_vars
SpecMetrics == Init /\ [][NextMetrics]_vars
SpecDashboard == Init /\ [][NextDashboard]_vars
SpecListing == Init /\ [][NextListing]_vars

\* The start of a process with or without the API key.
InitService ==
    /\ InitAuth /\ InitWf /\ InitSession /\ InitAgents /\ InitMetrics /\ IdleArchitecture
    /\ IdleClient
    /\ mlreq = NoRequest
    /\ models_loaded = FALSE
    /\ api_key \in BOOLEAN
    /\ mlresp = None

SpecArchitecture == InitService /\ [][NextArchitecture]_vars

\* The start of a process whose modules have just been imported, with or
\* without the supabase library.
InitImport ==
    /\ InitAuth /\ InitWf /\ IdleML /\ InitSession /\ InitAgents /\ InitMetrics
    /\ IdleArchitecture /\ ImportClient

SpecClient == InitImport /\ [][NextClient]_vars

\* The fallback client at work: every step of an execute that has begun is
\* taken in the end, as the handler runs it to its return.
SpecConnection == InitImport /\ [][NextConnection]_vars /\ WF_vars(NextConnection)

Next == NextAuth \/ NextWorkflow \/ NextML \/ NextSession \/ NextAgents \/ NextMetrics \/ NextDashboard \/ NextListing
          \/ NextArchitecture \/ NextClient \/ NextConnection

Spec == InitRequest /\ [][Next]_vars

----------------------------------------------------------------------------
(* Claims about authentication (checked under SpecAuth)                    *)

\* The stored hash h is the bcrypt hash of the first 72 bytes of password p.
HashOf(p, h) == h = [salt |-> h.salt, digest |-> <<h.salt, StrTake(p, 72)>>]

\* C1, as stated: a login response carries a token only if a user record with
\* the request's email exists whose stored hash the password verifies against,
\* and every login response without a token has status 401.
C1_LoginElse401 ==
    resp.op = "login" =>
        IF resp.token # None
        THEN \E i \in DOMAIN users :
                 users[i].email = resp.req.email
                 /\ HashOf(resp.req.password, users[i].password_hash)
        ELSE resp.status = 401

\* C1, amended: a login response carries a token only if a user record with the
\* request's email exists whose stored hash the password verifies against; a
\* response without a token is 401 "Invalid email or password", or 500 "Login
\* error" when the database call raised.
C1_LoginTokenOnlyOnMatch ==
    resp.op = "login" =>
        IF resp.token # None
        THEN /\ resp.status = 200
             /\ \E i \in DOMAIN users :
                    users[i].email = resp.req.email
                    /\ HashOf(resp.req.password, users[i].password_hash)
        ELSE \/ resp.status = 401 /\ resp.detail = "Invalid email or password"
             \/ resp.status = 500 /\ resp.detail = "Login error"

\* C1 witness: a login was refused with 401 for a registered email and a wrong
\* password, that is, the password check itself decided.
C1_Witness ==
    /\ resp.op = "login"
    /\ resp.status = 401
    /\ UsersByEmail(resp.req.email) # {}
    /\ \A i \in UsersByEmail(resp.req.email) :
           ~HashOf(resp.req.password, users[i].password_hash)

\* C2: a token issued by signup or login, while unexpired, is decoded by
\* get_current_user to str(id) of the record that was inserted (signup) or whose
\* password was verified (login), which is the id of no other user.
C2_TokenDecodesToSubject ==
    (resp.token # None /\ resp.token[1].payload.exp >= now) =>
        LET u   == resp.user[1]
            got == get_current_user(resp.token[1], now)
        IN  /\ got.status = 200
            /\ got.user_id = Some(ToStr(u.id))
            /\ \E i \in DOMAIN users : users[i] = u
            /\ u.email = resp.req.email
            /\ HashOf(resp.req.password, u.password_hash)
            /\ resp.op = "signup" => u = users[Len(users)]
            /\ \A i \in DOMAIN users : users[i] # u => Some(ToStr(users[i].id)) # got.user_id

\* C2 witness: a login token was issued for a record that is not the last of
\* two records with the same email.
C2_Witness ==
    /\ resp.op = "login"
    /\ resp.token # None
    /\ Len(users) = 2
    /\ users[1].email = users[2].email
    /\ resp.user[1] = users[1]

\* C3: a signup request whose password has fewer than 8 characters is answered
\* with an error and no token, inserts no user record and is never queued for
\* the insert, whatever the users table holds.  (The handler writes the request
\* into its response, so only the request of resp' can be the step's.)
C3_SignupRejectsShortPassword ==
    [][ /\ \A r \in inflight' : StrLen(r.password) >= 8
        /\ \A e \in {resp'.req.email} \cap Emails, p \in {resp'.req.password} \cap Passwords,
              ok \in BOOLEAN :
              (StrLen(p) < 8 /\ SignupCheck(e, p, ok)) =>
                  /\ resp'.op = "signup"
                  /\ resp'.status \in {400, 500}
                  /\ resp'.token = None
                  /\ users' = users
                  /\ inflight' = inflight ]_vars

\* C3 witness: a short password was rejected as such while the table holds a user.
C3_Witness ==
    /\ resp.op = "signup"
    /\ StrLen(resp.req.password) < 8
    /\ resp.status = 400
    /\ resp.detail = "Password must be at least 8 characters"
    /\ Len(users) > 0

\* C4, as stated: a signup request whose email is that of an existing user
\* record is answered with 400 "Email already registered", without a token, and
\* leaves the users table unchanged.
C4_DuplicateAlways400 ==
    [][ \A e \in {resp'.req.email} \cap Emails, p \in {resp'.req.password} \cap Passwords,
           ok \in BOOLEAN :
          (UsersByEmail(e) # {} /\ SignupCheck(e, p, ok)) =>
              /\ resp'.status = 400
              /\ resp'.detail = "Email already registered"
              /\ resp'.token = None
              /\ users' = users ]_vars

\* C4, amended: such a request is answered with 400 "Email already registered",
\* or with 500 "Signup error" when the existence lookup raised; in both cases
\* without a token, with the users table unchanged and nothing queued.
C4_SignupRejectsDuplicateEmail ==
    [][ \A e \in {resp'.req.email} \cap Emails, p \in {resp'.req.password} \cap Passwords,
           ok \in BOOLEAN :
          (UsersByEmail(e) # {} /\ SignupCheck(e, p, ok)) =>
              /\ resp'.op = "signup"
              /\ \/ ok /\ resp'.status = 400 /\ resp'.detail = "Email already registered"
                 \/ ~ok /\ resp'.status = 500 /\ resp'.detail = "Signup error"
              /\ resp'.token = None
              /\ users' = users
              /\ inflight' = inflight ]_vars

\* C4 witness: a signup with a valid password was rejected as a duplicate.
C4_Witness ==
    /\ resp.op = "signup"
    /\ resp.status = 400
    /\ resp.detail = "Email already registered"
    /\ StrLen(resp.req.password) >= 8
    /\ UsersByEmail(resp.req.email) # {}

----------------------------------------------------------------------------
(* Claims about workflows (checked under SpecWorkflow)                     *)

\* The rows of the three child tables that belong to workflow id, before and
\* after a step, are the same.
ChildrenUnchanged(id) ==
    /\ Of(agents', id) = Of(agents, id)
    /\ Of(steps', id) = Of(steps, id)
    /\ Of(metrics', id) = Of(metrics, id)

\* C5: GET /workflows and GET /workflows/{id} return to a caller only workflows
\* whose user_id is the caller's, and PUT and DELETE /workflows/{id} issued by a
\* caller leave every workflow of another user, and its child rows, as they were.
\* (Every handler writes its own name and caller into the response, so wresp'
\* tells which handler a step is.)
C5_WorkflowIsolation ==
    [][ /\ wresp'.op \in {"get_workflows", "get_workflow"} =>
              \A i \in DOMAIN wresp'.body : wresp'.body[i].row.user_id = wresp'.caller
        /\ wresp'.op \in {"update_workflow", "delete_workflow"} =>
              \A w \in workflows :
                  w.user_id # wresp'.caller => (w \in workflows' /\ ChildrenUnchanged(w.id)) ]_vars

\* C5 witness: a caller asked to delete a stored workflow of another user, and it
\* is still stored.
C5_Witness ==
    /\ wresp.op = "delete_workflow"
    /\ \E w \in workflows : w.id = wresp.workflow_id /\ w.user_id # wresp.caller

\* C6: a create request with N agents and M steps whose database calls all
\* succeed adds exactly one workflow row, owned by the caller and with a new id,
\* exactly N agent rows and exactly M step rows, each with the new workflow's
\* id, and leaves every other row of the three tables as it was.
C6_CreateAddsExactly ==
    [][ \A u \in {wresp'.caller} \cap UserIds : \A r \in CreateRequests(u) :
          CreateWorkflow(u, "n1", r.steps, r.agents, r.metrics, 0) =>
              /\ workflows \subseteq workflows'
              /\ Cardinality(workflows' \ workflows) = 1
              /\ \A w \in workflows' \ workflows :
                    /\ w.user_id = u
                    /\ \A v \in workflows : v.id # w.id
                    /\ agents \subseteq agents'
                    /\ Cardinality(agents' \ agents) = Len(r.agents)
                    /\ \A a \in agents' \ agents : a.workflow_id = w.id
                    /\ steps \subseteq steps'
                    /\ Cardinality(steps' \ steps) = Len(r.steps)
                    /\ \A t \in steps' \ steps : t.workflow_id = w.id
                    /\ \A v \in workflows : ChildrenUnchanged(v.id) ]_vars

\* C6 witness: a workflow was created with two agents and two steps while another
\* workflow with agents of its own is stored.
C6_Witness ==
    /\ wresp.op = "create_workflow"
    /\ wresp.status = 201
    /\ Cardinality(Of(agents, wresp.workflow_id)) = 2
    /\ Cardinality(Of(steps, wresp.workflow_id)) = 2
    /\ \E w \in workflows : w.id # wresp.workflow_id /\ Of(agents, w.id) # {}

\* How many of a request's agent inserts come before the call that raises.
AgentsBefore(r, f) ==
    Max(0, Min(Len(r.agents), f - 2 - (IF r.steps # <<>> THEN 1 ELSE 0)))

\* C7: when the steps insert, the k-th agent insert or the metrics insert of a
\* create request raises, the response is 500 and the workflow row, the steps
\* (if their insert came first) and the k-1 agents inserted before stay stored;
\* nothing is deleted.
C7_CreateNotAtomic ==
    [][ \A u \in {wresp'.caller} \cap UserIds : \A r \in CreateRequests(u) :
          \A f \in 2..(NumCalls(r.steps, r.agents, r.metrics) - 1) :
             CreateWorkflow(u, "n1", r.steps, r.agents, r.metrics, f) =>
                 /\ wresp'.status = 500
                 /\ \E w \in workflows' \ workflows : w.id = nextId /\ w.user_id = u
                 /\ Cardinality(Of(steps', nextId)) = (IF f > 2 THEN Len(r.steps) ELSE 0)
                 /\ Cardinality(Of(agents', nextId)) = AgentsBefore(r, f)
                 /\ Of(metrics', nextId) = {}
                 /\ workflows \subseteq workflows'
                 /\ agents \subseteq agents'
                 /\ steps \subseteq steps'
                 /\ metrics \subseteq metrics' ]_vars

\* C7 witness: a create request was answered 500 after its second agent insert
\* raised; the workflow, its two steps and its first agent are stored.
C7_Witness ==
    /\ wresp.op = "create_workflow"
    /\ wresp.status = 500
    /\ \E w \in workflows : w.id = wresp.workflow_id
    /\ Cardinality(Of(steps, wresp.workflow_id)) = 2
    /\ Cardinality(Of(agents, wresp.workflow_id)) = 1


----------------------------------------------------------------------------
(* Prediction and anomaly detection: claims                                *)

\* C8: every answered prediction has predicted_hours >= 0.5, with the trained
\* models and without them.  The heuristic branch has no such floor: an empty
\* description with one agent, one step and no history gives 0.38.
C8_PredictedHoursAtLeastHalf ==
    (mlreq.kind = "predict" /\ mlresp # None /\ mlresp[1].status = 200)
        => mlresp[1].predicted_hours100 >= 50

\* C9: every answered prediction has its success_probability, as returned after
\* the rounding to three decimals, in [0.1, 0.99].
C9_SuccessProbabilityInRange ==
    (mlreq.kind = "predict" /\ mlresp # None /\ mlresp[1].status = 200)
        => /\ mlresp[1].success_probability1000 >= 100
           /\ mlresp[1].success_probability1000 <= 990

\* A heuristic sum above the range (a confidence score of 9.0) answered with 0.99.
C9_Witness ==
    /\ mlreq.kind = "predict"
    /\ ~models_loaded
    /\ mlreq.confidence_scores100 = Some(<<900>>)
    /\ mlresp # None
    /\ mlresp[1].status = 200
    /\ mlresp[1].success_probability1000 = 990

\* C10: a detection request whose success_rate is below 0.7 is answered with
\* is_anomaly true.
C10_LowSuccessRateIsAnomaly ==
    (mlreq.kind = "anomaly" /\ mlresp # None /\ mlreq.success_rate100 < 70)
        => mlresp[1].is_anomaly

\* A success rate of 0.69 with every other metric at its baseline: the low
\* success rate is the only anomaly.
C10_Witness ==
    /\ mlreq.kind = "anomaly"
    /\ mlreq.success_rate100 = 69
    /\ mlreq.completion_time10 = 35
    /\ mlreq.agent_count = 2
    /\ mlreq.error_count = 0
    /\ mlresp # None
    /\ mlresp[1].is_anomaly
    /\ Len(mlresp[1].anomalies_detected) = 1


\* C11: a detection request whose success_rate is below 0.5 is answered with the
\* severity "Critical", whatever its other metrics.  The severity of the answer
\* is taken from the mean of the anomaly scores, not from the success rate: a
\* success rate of 0.49 alone scores 0.51, which is "High".
C11_SeverityCriticalBelowHalf ==
    (mlreq.kind = "anomaly" /\ mlresp # None /\ mlreq.success_rate100 < 50)
        => mlresp[1].severity = "Critical"


----------------------------------------------------------------------------
(* Workflows: further claims (checked under SpecWorkflow)                  *)

\* C13: a DELETE /workflows/{id} whose id names no workflow of the caller (none
\* at all, or one owned by another user) is answered 404 "Workflow not found"
\* and deletes nothing.  WorkflowService.delete_workflow returns True however
\* many rows its delete matched, so such a request is answered 204.
C13_DeleteUnknownIs404 ==
    [][ ( /\ wresp'.op = "delete_workflow"
          /\ ~\E w \in workflows : w.id = wresp'.workflow_id /\ w.user_id = wresp'.caller )
        => /\ wresp'.status = 404
           /\ wresp'.detail = "Workflow not found"
           /\ <<workflows, agents, steps, metrics>>' = <<workflows, agents, steps, metrics>>
      ]_vars


----------------------------------------------------------------------------
(* Bearer tokens: claims (checked under SpecSession)                       *)

\* The token was signed by the server, names a subject and has not expired at
\* time at: get_current_user is not used here.
TokenIsGood(token, at) ==
    /\ token.alg = "HS256"
    /\ token.sig = <<SECRET_KEY, token.payload>>
    /\ token.payload.sub # None
    /\ token.payload.exp >= at

\* C16: every token that signup or login issues carries a subject and expires
\* 1440 minutes after it was issued, and a request whose token is expired, is
\* not signed by the server or has no subject is answered 401 "Could not
\* validate credentials".
C16_TokenExpiry ==
    /\ [][ (resp'.token # None /\ resp' # resp) =>
              /\ resp'.token[1].payload.sub # None
              /\ resp'.token[1].payload.exp = now + 1440 ]_vars
    /\ [](sresp.token # None =>
              (~TokenIsGood(sresp.token[1], sresp.at) =>
                   /\ sresp.status = 401
                   /\ sresp.detail = "Could not validate credentials"
                   /\ sresp.user_id = None))

\* C16 witness: a token that the server issued, with a subject, was refused
\* because it had expired.
C16_Witness ==
    /\ sresp.token # None
    /\ sresp.token = held
    /\ sresp.token[1].payload.sub # None
    /\ sresp.token[1].payload.exp < sresp.at
    /\ sresp.status = 401

\* C17: a logout changes nothing the server stores, and a token the server
\* issued is still accepted, with the same subject, by every request made after
\* a logout with it, as long as it has not expired.
C17_LogoutClientSideOnly ==
    /\ [][ (sresp' # sresp /\ sresp'.op = "logout") =>
              <<authVars, wfVars, mlVars>>' = <<authVars, wfVars, mlVars>> ]_vars
    /\ [](( /\ sresp.token # None
            /\ sresp.after_logout
            /\ TokenIsGood(sresp.token[1], sresp.at) )
          => /\ sresp.status = 200
             /\ sresp.user_id = sresp.token[1].payload.sub)

\* C17 witness: a request after the logout, a token lifetime after the token was
\* issued, was accepted.
C17_Witness ==
    /\ sresp.op = "request"
    /\ sresp.after_logout
    /\ sresp.token = held
    /\ sresp.at = sresp.token[1].payload.exp
    /\ sresp.status = 200


----------------------------------------------------------------------------
(* Workflow requests served by several workers: claims (SpecAgents)        *)

\* C14: in every reachable state, whatever the interleaving of the calls of
\* create-workflow, add-agent, deploy-agent and delete-workflow requests, every
\* agent, step and metric row carries the workflow_id of a stored workflow.
C14_ForeignKeysHold ==
    /\ \A a \in agents : \E w \in workflows : w.id = a.workflow_id
    /\ \A t \in steps : \E w \in workflows : w.id = t.workflow_id
    /\ \A m \in metrics : \E w \in workflows : w.id = m.workflow_id

\* C14 witness: an add-agent request passed its ownership check, the workflow
\* was deleted, and its insert was then refused.
C14_Witness ==
    /\ wresp.op = "add_agent"
    /\ wresp.status = 500
    /\ wresp.detail = "foreign key violation"
    /\ ~\E w \in workflows : w.id = wresp.workflow_id

HasWorkflow(user_id) == \E w \in workflows : w.user_id = user_id

\* C12: for a user who owns no workflow, GET /metrics answers totalWorkflows,
\* activeAgents and avgAutomation all 0, and GET /metrics/telemetry answers
\* the empty payload of generate_empty_metrics (totalCost 0, twelve zeros of
\* executionVolume, no agentPerformance, costBreakdown or waitDistribution),
\* whatever the execution logs hold and whether or not the selects succeed.
C12_NoWorkflowsAllZero ==
    \A u \in UserIds :
        ~HasWorkflow(u) =>
            /\ \A dbOk \in BOOLEAN :
                  get_user_metrics(u, dbOk)
                    = [totalWorkflows |-> 0, activeAgents |-> 0, avgAutomation |-> 0]
            /\ \A range \in TimeRanges, wfOk \in BOOLEAN, logOk \in BOOLEAN :
                  get_telemetry_metrics(range, u, wfOk, logOk)
                    = Payload(range, None, None, 0, <<0, 0, 0, 0, 0, 0, 0, 0, 0, 0, 0, 0>>,
                              {}, <<>>, <<>>)

\* A user without workflows, with execution logs inside the range, was sent
\* the empty payload, while some other user owns a workflow.
C12_Witness ==
    /\ mresp.op = "get_telemetry_metrics"
    /\ ~HasWorkflow(mresp.caller)
    /\ \E u \in UserIds : HasWorkflow(u)
    /\ LogsInRange(mresp.caller, mresp.range, now) # {}
    /\ mresp.body[1].totalCost100 = 0
    /\ mresp.body[1].agentPerformance = {}

\* C15: the execution_logs table is append-only: no step removes or changes a
\* row it holds.
C15_LogsAppendOnly == [][execution_logs \subseteq execution_logs']_vars

\* A workflow was run and then deleted: its execution logs are still there.
C15_Witness ==
    /\ wresp.op = "delete_workflow"
    /\ wresp.status = 204
    /\ \E l \in execution_logs :
          /\ l.workflow_id = Some(wresp.workflow_id)
          /\ l.agent_id # None
          /\ ~\E w \in workflows : w.id = wresp.workflow_id

\* C18: a telemetry request of a user who owns a workflow is answered with
\* the empty payload when no execution log of the user is inside the range,
\* and with the aggregate of the logs inside the range otherwise.
C18_TelemetryFromLogsOnly ==
    [][ ( /\ mresp' # mresp
          /\ mresp'.op = "get_telemetry_metrics"
          /\ HasWorkflow(mresp'.caller) )
        => mresp'.body
             = IF LogsInRange(mresp'.caller, mresp'.range, now) = {}
               THEN Some(generate_empty_metrics(mresp'.range))
               ELSE get_aggregated_metrics(mresp'.caller, mresp'.range, now, TRUE) ]_vars

\* The payloads of generate_metrics_data: stamped, and without a count of
\* executions.
Simulated(payload) == payload.generatedAt # None /\ payload.totalExecutions = None

\* The kept payload and the last response are simulated payloads for the same
\* user, range and day.
SameUserDayRange ==
    /\ kept # None
    /\ mresp.op = "get_telemetry_metrics"
    /\ Simulated(kept[1].body)
    /\ Simulated(mresp.body[1])
    /\ kept[1].caller = mresp.caller
    /\ kept[1].body.timeRange = mresp.body[1].timeRange
    /\ Today(kept[1].body.generatedAt[1]) = Today(mresp.body[1].generatedAt[1])

\* C19: two simulated payloads for the same user, range and day are equal in
\* every field but generatedAt, whatever was drawn from the process-wide
\* generator between the two calls.
C19_SimulatedDeterministic ==
    SameUserDayRange =>
        [kept[1].body EXCEPT !.generatedAt = None]
            = [mresp.body[1] EXCEPT !.generatedAt = None]

\* Two such payloads of different hours, with a run of a workflow, which draws
\* from the process-wide generator, in the hours between them.
C19_Witness ==
    /\ SameUserDayRange
    /\ \E l \in execution_logs :
          /\ kept[1].body.generatedAt[1] < l.executed_at
          /\ l.executed_at < mresp.body[1].generatedAt[1]
    /\ random_state.n > 0

\* The last call ran without an API key, or its LLM call raised, or the
\* content of the answer was not JSON.
LlmUnavailable ==
    /\ aresp.llm # None
    /\ ~api_key \/ aresp.llm[1].kind \in {"raises", "text"}

RuleBasedList ==
    /\ aresp.raised = None
    /\ Len(aresp.blueprints) >= 2
    /\ aresp.blueprints[1].name = "Workflow Coordinator"
    /\ \A i \in DOMAIN aresp.blueprints : aresp.blueprints[i].agent_id[1] # "gen"

\* C20: a call of generate_architecture made without an API key, or whose LLM
\* call or JSON parsing fails, raises nothing and returns the rule-based list:
\* its first element is the Workflow Coordinator and it has at least two
\* agents.
C20_FallsBackToRuleBased == LlmUnavailable => RuleBasedList

\* The same for the calls whose description is a string, with the answers
\* that are no JSON object or hold an agent without a role among the failures.
FallsBackForText ==
    ( /\ aresp.llm # None
      /\ aresp.description # None
      /\ \/ ~api_key
         \/ aresp.llm[1].kind # "object"
         \/ /\ aresp.llm[1].agents # None
            /\ \E i \in DOMAIN aresp.llm[1].agents[1] :
                  aresp.llm[1].agents[1][i].role = None )
    => RuleBasedList

\* C21: when the select that lists a user's workflows fails, GET /workflows
\* answers 200 with the empty list, GET /metrics answers the all-zero
\* aggregate and GET /metrics/telemetry answers the empty payload: what a user
\* without workflows is sent.
C21_ListingFailureIsEmpty ==
    [][ \A u \in UserIds :
          /\ GetWorkflows(u, FALSE) => (wresp'.status = 200 /\ wresp'.body = <<>>)
          /\ GetUserMetrics(u, FALSE) =>
                /\ mresp'.status = 200
                /\ mresp'.body
                     = Some([totalWorkflows |-> 0, activeAgents |-> 0, avgAutomation |-> 0])
          /\ \A logOk \in BOOLEAN :
                GetTelemetryMetrics("24h", u, FALSE, logOk) =>
                    /\ mresp'.status = 200
                    /\ mresp'.body = Some(generate_empty_metrics("24h")) ]_vars

\* A user who owns a workflow, with execution logs inside the range, was sent
\* the empty list; no workflow was created or deleted since, as those requests
\* write their own response.
C21_Witness ==
    /\ wresp.op = "get_workflows"
    /\ wresp.status = 200
    /\ wresp.body = <<>>
    /\ HasWorkflow(wresp.caller)
    /\ LogsInRange(wresp.caller, "24h", now) # {}
    /\ mresp.op = "get_telemetry_metrics"
    /\ mresp.caller = wresp.caller
    /\ mresp.body = Some(generate_empty_metrics("24h"))

----------------------------------------------------------------------------
(* Claims about the database client (SpecClient, SpecConnection)           *)

\* C22: in one process create_client is invoked at most once, and every call
\* of get_supabase_client that returns is given the same handle.
C22_OneClient ==
    /\ create_calls <= 1
    /\ \A i, j \in 1..Len(handed) : handed[i].handle = handed[j].handle
    /\ \A i \in 1..Len(handed) : handed[i].handle = supabase_client

\* With the library, a service and two handlers have asked for the client and
\* hold the handle of the one create_client invocation.
C22_Witness ==
    /\ SUPABASE_SDK_AVAILABLE
    /\ create_calls = 1
    /\ Len(handed) >= 3
    /\ handed[1].caller = "WorkflowService"
    /\ \E i, j \in 2..Len(handed) :
          /\ handed[i].caller = "signup"
          /\ handed[j].caller = "login"
          /\ handed[i].handle = Some(1)
          /\ handed[j].handle = Some(1)

\* C30, as stated: every execute opens one connection and, when control is
\* back with the caller, has closed it, having committed it and returned if
\* no statement of the query raised, and having rolled it back and raised if
\* one did.
C30_AsStated ==
    \A i \in 1..Len(qresult) :
        /\ qresult[i].conn.state = "closed"
        /\ "query" \notin qresult[i].exc =>
              /\ qresult[i].conn.committed
              /\ qresult[i].outcome = "returned"
        /\ "query" \in qresult[i].exc =>
              /\ qresult[i].conn.rolled_back
              /\ ~qresult[i].conn.committed
              /\ qresult[i].outcome = "raised"

\* What holds of an execute once control is back with its caller.
CleanlyFinished(r) ==
    /\ "connect" \in r.exc <=> r.conn.state = "none"
    /\ "connect" \notin r.exc <=> r.conn.state = "closed"
    /\ r.outcome = "returned" <=> r.exc = {}
    /\ r.outcome = "returned" <=> r.conn.committed
    /\ r.conn.committed => ~r.conn.rolled_back
    /\ r.outcome = "raised" => r.after = r.before
    /\ (r.exc \cap {"query", "commit"} # {} /\ "rollback" \notin r.exc) => r.conn.rolled_back

\* C30, amended: an execute whose connect succeeds opens one connection and
\* closes it before control is back with the caller; it returns its result
\* exactly when the commit succeeded; when a statement or the commit itself
\* raises, the connection is rolled back (unless the rollback raises too),
\* never committed, the table is as before and an exception reaches the
\* caller; an open connection is always closed in the end.
C30_FinishesCleanly ==
    /\ [](/\ \A i \in 1..Len(qresult) : CleanlyFinished(qresult[i])
          /\ exec.pc = "idle" <=> conn.state # "open")
    /\ (conn.state = "open") ~> (conn.state = "closed")

\* Control is back from an insert of two rows whose second statement the
\* database refused: rolled back, closed, not committed and the first row is
\* not in the table; and from a query that was committed and closed.
C30_Witness ==
    /\ exec.pc = "idle"
    /\ \E i \in 1..Len(qresult) :
          /\ qresult[i].query.kind = "insert"
          /\ Len(qresult[i].query.items) = 2
          /\ qresult[i].exc = {"query"}
          /\ qresult[i].conn = [state |-> "closed", rows |-> qresult[i].before,
                                committed |-> FALSE, rolled_back |-> TRUE]
          /\ qresult[i].after = qresult[i].before
          /\ qresult[i].outcome = "raised"
    /\ \E i \in 1..Len(qresult) :
          /\ qresult[i].outcome = "returned"
          /\ qresult[i].conn.state = "closed"
          /\ qresult[i].conn.committed
          /\ qresult[i].after # qresult[i].before

----------------------------------------------------------------------------
(* Further claims about authentication (SpecAuth)                          *)

\* C23: after any interleaving of signup requests, each an existence check
\* followed by an insert, no two user records have the same email.
C23_OneRecordPerEmail ==
    \A i, j \in DOMAIN users : users[i].email = users[j].email => i = j

----------------------------------------------------------------------------
(* Further claims about the workflow router (SpecAgents)                   *)

\* C24: a deploy request changes an agent only if the agent belongs to a
\* workflow of the caller; for an agent of another user's workflow no record
\* is changed.
C24_DeployRespectsOwnership ==
    [][ (wresp'.op = "deploy_agent" /\ agents' # agents) =>
            \A a \in agents' \ agents :
                \E w \in workflows : w.id = a.workflow_id /\ OwnedBy(w, wresp'.caller) ]_vars

----------------------------------------------------------------------------
(* Further claims about the metrics endpoints (SpecMetrics)                *)

\* C25: every stored execution log has a workflow_id that is null or the id
\* of a workflow whose user_id is the user_id of the log.
C25_LogsNameOwnersWorkflow ==
    \A l \in execution_logs :
        \/ l.workflow_id = None
        \/ \E w \in workflows : w.id = l.workflow_id[1] /\ w.user_id = l.user_id

\* C26: a login that follows a signup which returned a token, for the same
\* email, returns a token with the subject of the signup token when it gives
\* the same password, and 401 when it gives another password of at most 72
\* bytes.  (A login whose database call raises is answered 500 and is left
\* aside.)
C26_SignupThenLogin ==
    [][ ( /\ resp.op = "signup"
          /\ resp.token # None
          /\ resp'.op = "login"
          /\ resp'.req.email = resp.req.email
          /\ resp'.status # 500 ) =>
            IF resp'.req.password = resp.req.password
            THEN /\ resp'.token # None
                 /\ resp'.token[1].payload.sub = resp.token[1].payload.sub
            ELSE StrLen(resp'.req.password) <= BcryptMaxBytes =>
                    /\ resp'.status = 401
                    /\ resp'.token = None ]_vars

\* A login that must fail: the email is not registered, or the password
\* verifies against no record with the email.
BadCredentials(email, password) ==
    \A i \in UsersByEmail(email) : ~verify_password(password, users[i].password_hash)

\* C27, as stated: a login with an unregistered email and a login with a
\* registered email and a wrong password are both answered 401 with the same
\* detail, and neither changes stored state.
C27_BadLoginAlways401 ==
    [][ \A e \in {resp'.req.email} \cap Emails, p \in {resp'.req.password} \cap Passwords,
           ok \in BOOLEAN :
          (BadCredentials(e, p) /\ Login(e, p, ok)) =>
              /\ resp'.status = 401
              /\ resp'.detail = "Invalid email or password"
              /\ resp'.token = None
              /\ users' = users ]_vars

\* C27, amended: the two logins are answered alike, with 401 "Invalid email or
\* password" when the lookup succeeds and with 500 "Login error" when it
\* raises; neither returns a token or changes stored state.
C27_LoginHidesRegistration ==
    [][ \A e \in {resp'.req.email} \cap Emails, p \in {resp'.req.password} \cap Passwords,
           ok \in BOOLEAN :
          (BadCredentials(e, p) /\ Login(e, p, ok)) =>
              /\ resp'.op = "login"
              /\ \/ ok /\ resp'.status = 401 /\ resp'.detail = "Invalid email or password"
                 \/ ~ok /\ resp'.status = 500 /\ resp'.detail = "Login error"
              /\ resp'.token = None
              /\ resp'.user = None
              /\ <<users, inflight, now>>' = <<users, inflight, now>> ]_vars

\* A login with a registered email and a wrong password was answered 401
\* "Invalid email or password", while the other email is not registered.
C27_Witness ==
    /\ resp.op = "login"
    /\ resp.status = 401
    /\ resp.detail = "Invalid email or password"
    /\ UsersByEmail(resp.req.email) # {}
    /\ BadCredentials(resp.req.email, resp.req.password)
    /\ \E e \in Emails : UsersByEmail(e) = {}

----------------------------------------------------------------------------
(* Further claims about prediction (SpecML)                                *)

\* C28: every answered prediction, with the trained models and without them,
\* has time_range.min <= predicted_hours <= time_range.max and
\* time_range.min >= 0.5.
C28_RangeBracketsPrediction ==
    (mlreq.kind = "predict" /\ mlresp # None /\ mlresp[1].status = 200)
        => /\ mlresp[1].time_range.min100 <= mlresp[1].predicted_hours100
           /\ mlresp[1].predicted_hours100 <= mlresp[1].time_range.max100
           /\ mlresp[1].time_range.min100 >= 50

----------------------------------------------------------------------------
(* Further claims about workflows (SpecWorkflow)                           *)

\* C29: the steps insert of a create request with M steps adds M rows whose
\* step_order values are 1..M, the i-th step of the request with step_order i
\* and all with the id of the new workflow; the rows are added by one call,
\* all of them or none.
C29_StepsInRequestOrder ==
    [][ \A u \in {wresp'.caller} \cap UserIds : \A r \in CreateRequests(u) :
          \A f \in 0..NumCalls(r.steps, r.agents, r.metrics) :
             CreateWorkflow(u, "n1", r.steps, r.agents, r.metrics, f) =>
                 LET new == steps' \ steps
                     M   == Len(r.steps)
                 IN  /\ steps \subseteq steps'
                     /\ new # {} <=> (M > 0 /\ CallRuns(StepsCall, f))
                     /\ new # {} =>
                           /\ Cardinality(new) = M
                           /\ {s.step_order : s \in new} = 1..M
                           /\ \A s \in new :
                                 /\ s.workflow_id = nextId
                                 /\ s.description = r.steps[s.step_order].description ]_vars

\* A request with the steps s1, s2 was answered 201 and its workflow has s1
\* stored with step_order 1 and s2 with step_order 2.
C29_Witness ==
    /\ wresp.op = "create_workflow"
    /\ wresp.status = 201
    /\ {[step_order |-> s.step_order, description |-> s.description] :
            s \in Of(steps, wresp.workflow_id)}
         = {[step_order |-> 1, description |-> Step1.description],
            [step_order |-> 2, description |-> Step2.description]}

====
